---- MODULE Spec2Model ----
(***************************************************************************)
(* Calcount: the food-entry store, the daily-summary aggregation and the   *)
(* goals manager of the tRPC food router (server/routers/food.ts) over the *)
(* database layer (server/db.ts) and the tables of drizzle/schema.ts.      *)
(*                                                                         *)
(* Time is counted in ticks, TicksPerDay ticks to a calendar day; grams    *)
(* are whole numbers.  A nullable column holds None or Some(v).  Each      *)
(* request runs in a slot of req; a handler that awaits several database   *)
(* statements is one action per statement, so that requests interleave     *)
(* exactly at the awaits of the code.                                      *)
(***************************************************************************)
EXTENDS Integers, Sequences, FiniteSets, TLC

VARIABLES foodEntries, dailySummary, userGoals, customFoods,
          nextEntryId, nextSummaryId, nextGoalsId, nextCustomId,
          req, lastGoals,
          DATABASE_URL, addFoodModal, bmiCalculator, once,
          barcodeModal, mediaDevices, dashboard, goalsModal,
          imageUploadModal, editFoodModal

vars == <<foodEntries, dailySummary, userGoals, customFoods,
          nextEntryId, nextSummaryId, nextGoalsId, nextCustomId,
          req, lastGoals,
          DATABASE_URL, addFoodModal, bmiCalculator, once,
          barcodeModal, mediaDevices, dashboard, goalsModal,
          imageUploadModal, editFoodModal>>

foodVars == <<foodEntries, dailySummary, nextEntryId, nextSummaryId>>
goalVars == <<userGoals, nextGoalsId, lastGoals>>
customVars == <<customFoods, nextCustomId>>
\* the environment of the server process
envVars == <<DATABASE_URL>>
\* the components of the client and what the caller has noted
\* the barcode modal, the camera of the browser, the dashboard page and
\* the goals modal
uiVars == <<barcodeModal, mediaDevices, dashboard, goalsModal,
           imageUploadModal, editFoodModal>>
clientVars == <<addFoodModal, bmiCalculator, once, uiVars>>
\* what the handlers of entries and goals leave alone
restVars == <<customVars, envVars, clientVars>>

(* ------------------------------ bounds --------------------------------- *)

\* rows the foodEntries table may ever receive (autoincrement ids 1..MaxEntries)
MaxEntries == 2

\* rows the foodEntries table may receive where the modals' selects are
\* part of the run: each row then takes any of the meal times and units
MaxPicked == 1
\* the latest tick a request may carry as its date
MaxTime == 2
\* ticks per calendar day
TicksPerDay == 2

Users == {1, 2}
\* the user whose interleaved requests are followed
ConcUsers == {1}
Procs == {1, 2}
SeqProcs == {1}
Times == 0..MaxTime

None == <<>>
Some(v) == <<v>>

(* ------------------------------ inputs --------------------------------- *)

\* bodies of addFood requests before the schema is applied; the first
\* omits quantity and unit
RawFoods ==
  { [foodName |-> "oats", mealTime |-> "morning", calories |-> 300,
     protein |-> 10, carbs |-> 54, fats |-> 5, source |-> "manual"],
    [foodName |-> "eggs", mealTime |-> "evening", calories |-> 220,
     protein |-> 18, carbs |-> 2, fats |-> 15, quantity |-> 2,
     unit |-> "piece", source |-> "manual"] }

\* what the estimator may answer; caloriesTenths is the number of the JSON
\* answer in tenths of a kcal (725 is 72.5)
Analyses ==
  { [foodName |-> "apple", caloriesTenths |-> 725, protein |-> 1,
     carbs |-> 19, fats |-> 0, quantity |-> 1, unit |-> "piece"] }

LlmOutcomes == {[kind |-> "content", analysis |-> a] : a \in Analyses}

\* what the estimator may answer to a barcode: the schema of that request
\* names the portion servingSize and servingUnit
BarcodeAnalyses ==
  { [foodName |-> "cola", caloriesTenths |-> 1395, protein |-> 0,
     carbs |-> 35, fats |-> 0, servingSize |-> 330, servingUnit |-> "ml"] }

BarcodeOutcomes == {[kind |-> "content", analysis |-> a] : a \in BarcodeAnalyses}

\* the ways the estimator fails: invokeLLM rejects, the answer has no content,
\* the content is not JSON
LlmFailures ==
  { [kind |-> "rejected"], [kind |-> "noContent"], [kind |-> "unparsable"] }

\* answers of an estimator that is not to be trusted: JSON of the right
\* shape with numbers below zero
UntrustedAnalyses ==
  { [foodName |-> "ice", caloriesTenths |-> -725, protein |-> -1,
     carbs |-> 0, fats |-> 0, quantity |-> 1, unit |-> "piece"] }

UntrustedBarcodeAnalyses ==
  { [foodName |-> "gum", caloriesTenths |-> 20, protein |-> 0,
     carbs |-> -2, fats |-> -1, servingSize |-> 1, servingUnit |-> "piece"] }

\* bodies of addFood and updateFood requests with numbers below zero
NegativeFoods ==
  { [foodName |-> "void", mealTime |-> "noon", calories |-> -50,
     protein |-> 1, carbs |-> 1, fats |-> 1, source |-> "manual"] }

NegativeUpdates ==
  { [fats |-> -4] }

\* bodies of addFood requests whose Date is not on a whole tick: ms is what
\* it has beyond the tick, in thousandths of a tick
SubSecondFoods ==
  { [foodName |-> "rice", mealTime |-> "noon", calories |-> 200,
     protein |-> 4, carbs |-> 45, fats |-> 0, source |-> "manual",
     ms |-> 250],
    [foodName |-> "tea", mealTime |-> "lateNight", calories |-> 2,
     protein |-> 0, carbs |-> 0, fats |-> 0, quantity |-> 1, unit |-> "cup",
     source |-> "manual", ms |-> 750] }

\* bodies of updateFood requests (data) before the partial schema is applied
RawUpdates ==
  { [calories |-> 120, protein |-> 7] }

(* --------------------------- pure helpers ------------------------------ *)

\* new Date(date); setHours(0, 0, 0, 0)
startOfDay(date) == date - (date % TicksPerDay)

\* a window that ends on the next midnight
endOfDay_NextMidnight(date) == startOfDay(date) + TicksPerDay

\* new Date(date); setHours(23, 59, 59, 999)
endOfDay(date) == startOfDay(date) + (TicksPerDay - 1)

\* Math.round on a number given in tenths
MathRound(tenths) == (tenths + 5) \div 10

\* Math.round(x * 10) / 10 on whole grams
RoundToTenth(x) == MathRound((x * 10) * 10) \div 10

\* x || 0 on a number
OrZero(x) == IF x = 0 THEN 0 ELSE x

\* z.number().int().min(0) / z.number().min(0) of AddFoodEntrySchema
AddFoodEntryIssues(raw) ==
  {f \in {"calories", "protein", "carbs", "fats"} \cap DOMAIN raw : raw[f] < 0}

\* AddFoodEntrySchema: quantity and unit take their defaults when omitted
AddFoodEntrySchema(raw) ==
  [f \in DOMAIN raw \cup {"quantity", "unit"} |->
     IF f \in DOMAIN raw THEN raw[f]
     ELSE IF f = "quantity" THEN 1 ELSE "serving"]

\* AddFoodEntrySchema.partial(): every field may be omitted; the optional
\* wrapper of the validator in use (the one whose messages read ">=500")
\* still hands an omitted quantity or unit to its default
AddFoodEntrySchemaPartial(raw) == AddFoodEntrySchema(raw)

\* the row INSERT builds from an InsertFoodEntry: absent nullable columns are
\* NULL, the id is the table's autoincrement
FoodEntryRow(id, entry) ==
  [id |-> id, userId |-> entry.userId, foodName |-> entry.foodName,
   mealTime |-> entry.mealTime, calories |-> entry.calories,
   protein |-> entry.protein, carbs |-> entry.carbs, fats |-> entry.fats,
   quantity |-> entry.quantity, unit |-> entry.unit,
   imageUrl |-> IF "imageUrl" \in DOMAIN entry THEN Some(entry.imageUrl) ELSE None,
   barcode |-> IF "barcode" \in DOMAIN entry THEN Some(entry.barcode) ELSE None,
   source |-> entry.source, date |-> entry.date]

\* what the Date of an entry has beyond its whole tick
MsOf(entry) == IF "ms" \in DOMAIN entry THEN entry.ms ELSE 0

\* the values a timestamp column (no fractional part) may hold for the Date
\* of an entry: the fraction is dropped, or rounded to the nearest tick
TimestampColumn(entry) ==
  {entry.date} \cup (IF MsOf(entry) >= 500 THEN {entry.date + 1} ELSE {})

\* UPDATE ... SET data on one row
SetColumns(row, data) ==
  [f \in DOMAIN row |->
     IF f \in DOMAIN data
     THEN (IF f \in {"imageUrl", "barcode"} THEN Some(data[f]) ELSE data[f])
     ELSE row[f]]

\* rows in creation order (ORDER BY createdAt; ids grow with creation)
RECURSIVE OrderByCreatedAt(_)
OrderByCreatedAt(rows) ==
  IF rows = {} THEN <<>>
  ELSE LET last == CHOOSE r \in rows : \A s \in rows : s.id <= r.id
       IN Append(OrderByCreatedAt(rows \ {last}), last)

ZeroTotals ==
  [totalCalories |-> 0, totalProtein |-> 0, totalCarbs |-> 0, totalFats |-> 0]

\* entries.reduce(..., {0, 0, 0, 0}) of the handlers
RECURSIVE ReduceTotals(_)
ReduceTotals(entries) ==
  IF entries = <<>> THEN ZeroTotals
  ELSE LET acc == ReduceTotals(SubSeq(entries, 1, Len(entries) - 1))
           e == entries[Len(entries)]
       IN [totalCalories |-> acc.totalCalories + e.calories,
           totalProtein |-> acc.totalProtein + OrZero(e.protein),
           totalCarbs |-> acc.totalCarbs + OrZero(e.carbs),
           totalFats |-> acc.totalFats + OrZero(e.fats)]

(* --------------------------- database layer ---------------------------- *)

\* getFoodEntriesByDate without the bounds of the day
getFoodEntriesByDate_AnyDay(userId, date) ==
  OrderByCreatedAt({e \in foodEntries : e.userId = userId})

\* getFoodEntriesByDate(userId, date)
getFoodEntriesByDate(userId, date) ==
  OrderByCreatedAt({e \in foodEntries :
                      /\ e.userId = userId
                      /\ e.date >= startOfDay(date)
                      /\ e.date <= endOfDay(date)})

\* the SELECT of getDailySummary without the condition on userId
DailySummaryRows_AnyUser(userId, date) ==
  {r \in dailySummary : r.date = startOfDay(date)}

\* the rows the SELECT of getDailySummary matches before .limit(1)
DailySummaryRows(userId, date) ==
  {r \in dailySummary : r.userId = userId /\ r.date = startOfDay(date)}

\* .limit(1) of a SELECT without ORDER BY on a table whose only index is
\* its primary key (drizzle/schema.ts 66-76): the table is read in the
\* order of the key and the first matching row is the one of least id
FirstRow(rows) == CHOOSE r \in rows : \A other \in rows : r.id <= other.id

\* the DELETE without the condition on userId
deleteFoodEntry_NoOwner(id, userId) ==
  {e \in foodEntries : e.id # id}

\* deleteFoodEntry(id, userId): the table after the DELETE
deleteFoodEntry(id, userId) ==
  {e \in foodEntries : ~(e.id = id /\ e.userId = userId)}

\* updateFoodEntry(id, userId, data): the table after the UPDATE
updateFoodEntry(id, userId, data) ==
  {IF e.id = id /\ e.userId = userId THEN SetColumns(e, data) ELSE e :
     e \in foodEntries}

\* the INSERT branch of upsertDailySummary
NewSummaryRow(id, userId, date, totals) ==
  [id |-> id, userId |-> userId, date |-> startOfDay(date),
   totalCalories |-> OrZero(totals.totalCalories),
   totalProtein |-> OrZero(totals.totalProtein),
   totalCarbs |-> OrZero(totals.totalCarbs),
   totalFats |-> OrZero(totals.totalFats)]

\* an UPDATE that changes no row
UpdateSummaryRows_Ignored(existingId, totals) == dailySummary

\* the UPDATE branch of upsertDailySummary: SET totals WHERE id = existing.id
UpdateSummaryRows(existingId, totals) ==
  {IF r.id = existingId
   THEN [r EXCEPT !.totalCalories = totals.totalCalories,
                  !.totalProtein = totals.totalProtein,
                  !.totalCarbs = totals.totalCarbs,
                  !.totalFats = totals.totalFats]
   ELSE r : r \in dailySummary}

(* ------------------------------ requests ------------------------------- *)

\* llm is what the estimator answered to the request, None while or when it
\* was not asked; heard tells that the caller is still there to take the
\* answer
Idle ==
  [pc |-> "idle", op |-> "none", user |-> 0, input |-> <<>>, llm |-> None,
   inserted |-> {}, totals |-> ZeroTotals, existing |-> {},
   resp |-> [ok |-> TRUE, value |-> <<>>], heard |-> TRUE]

Ready(p) == req[p].pc \in {"idle", "done"}

Call(op, user, input) ==
  [Idle EXCEPT !.op = op, !.user = user, !.input = input]

\* the request as it stays on record once its handler has returned or thrown
Done(r, ok, value) ==
  [Idle EXCEPT !.pc = "done", !.op = r.op, !.user = r.user, !.input = r.input,
               !.llm = r.llm, !.inserted = r.inserted,
               !.resp = [ok |-> ok, value |-> value], !.heard = r.heard]

\* a request that has left the browser and has not reached its handler
Sent(op, user, input) == [Call(op, user, input) EXCEPT !.pc = "sent"]

\* the page may use p for a new request: nothing is in it, or an answer
\* that nobody is to take any more
Free(p) ==
  \/ req[p].pc = "idle"
  \/ /\ req[p].pc = "done"
     /\ \/ ~req[p].heard
        \/ req[p].op = "calculateMacros" /\ p \notin addFoodModal.pending

\* the answer of request p is there and the page that sent it is still
\* there to take it
Answered(p, ops) ==
  /\ req[p].pc = "done"
  /\ req[p].heard
  /\ req[p].op \in ops

\* getDb(): the drizzle handle, or null when DATABASE_URL is not set
getDb == IF DATABASE_URL = None THEN None ELSE Some("drizzle")

\* a database function that goes on without a handle
Unavailable_Ignored(db) == FALSE

\* if (!db) throw new Error("Database not available")
Unavailable(db) == db = None

DbError == "Database not available"

\* a handler that tells a row of another user from a row that is not there
MutationResponse_Forbidden(id, userId) ==
  IF \E e \in foodEntries : e.id = id /\ e.userId # userId
  THEN "forbidden" ELSE "success"

\* return { success: true } of deleteFood and updateFood
MutationResponse(id, userId) == "success"

\* sonner: the notification that was shown last
NoToast == [kind |-> "none", message |-> ""]
ToastSuccess(message) == [kind |-> "success", message |-> message]
ToastError(message) == [kind |-> "error", message |-> message]

\* toast.error(error.message || fallback): the message of the error the
\* request was answered with; no error of the handlers has an empty
\* message, so the fallback is never shown
ToastFailure(r, fallback) == ToastError(r.resp.value)

\* Dashboard.tsx 39 and 200: the meal time the page hands to its modals
\* as the prop mealTime; the page never sets another
PageMealTime == "noon"

\* the state of AddFoodModal when it opens: empty text fields are None;
\* selectedMealTime starts as the prop mealTime; isPending is that of
\* addFoodMutation, and call is the call of addFoodMutation this modal has
\* made and not heard of
AddFoodModalInit ==
  [foodName |-> None, calories |-> None, protein |-> None, carbs |-> None,
   fats |-> None, quantity |-> Some(1), unit |-> "serving",
   selectedMealTime |-> PageMealTime,
   isCalculating |-> FALSE, timer |-> TRUE, pending |-> {}, latest |-> None,
   isPending |-> FALSE, call |-> None, toast |-> NoToast]

\* BMICalculator.tsx 71-79: the state of a BMICalculator that mounts
\* without initialData, which also stands for no calculator being mounted
BMICalculatorInit ==
  [height |-> None, weight |-> None, age |-> None, gender |-> "male",
   activityLevel |-> "moderate", goal |-> "maintain",
   bmi |-> None, tdee |-> None, suggestedMacros |-> None]

\* x || undefined, then x?.toString() || "" for a nullable number column
NumberOrEmpty(column) ==
  IF column = None THEN None ELSE IF column[1] = 0 THEN None ELSE column

\* x || undefined, then x || fallback for a nullable enum column
ChoiceOr(column, fallback) == IF column = None THEN fallback ELSE column[1]

\* GoalsSettingsModal.tsx 162-168 and BMICalculator.tsx 71-79: the state
\* of a BMICalculator that mounts over the getGoals data of the page:
\* initialData is made of the stored row, and of nothing when getGoals
\* answered the defaults, which have no height
BMICalculatorOver(currentGoals) ==
  IF currentGoals = None THEN BMICalculatorInit
  ELSE IF "height" \notin DOMAIN currentGoals[1] THEN BMICalculatorInit
  ELSE [BMICalculatorInit EXCEPT
          !.height = NumberOrEmpty(currentGoals[1].height),
          !.weight = NumberOrEmpty(currentGoals[1].weight),
          !.age = NumberOrEmpty(currentGoals[1].age),
          !.gender = ChoiceOr(currentGoals[1].gender, "male"),
          !.activityLevel = ChoiceOr(currentGoals[1].activityLevel, "moderate")]

\* BarcodeModal.tsx 21-30: the state and the refs of a mounted modal;
\* startCamera counts the calls of startCamera that wait for getUserMedia,
\* and call is the call of analyzeBarcodeMutation this modal has made and
\* not heard of
BarcodeModalInit ==
  [selectedMealTime |-> PageMealTime, barcode |-> "", isAnalyzing |-> FALSE, isCameraActive |-> FALSE,
   srcObject |-> None, streamRef |-> None, detectionIntervalRef |-> FALSE,
   startCamera |-> 0, call |-> None, toast |-> NoToast]

\* ImageUploadModal.tsx 20-23: the state of a mounted modal; reader tells
\* that a FileReader reads the chosen file, and call is the run of
\* handleAnalyze this modal has started and not heard of; handleAnalyze
\* holds, for each run that waits for uploadImage, the meal time and the
\* date it will send with analyzeImage (a run outlives its modal)
ImageUploadModalInit ==
  [selectedMealTime |-> PageMealTime, preview |-> None, reader |-> FALSE, isAnalyzing |-> FALSE, call |-> None,
   handleAnalyze |-> [p \in Procs |-> None], toast |-> NoToast]

\* EditFoodModal.tsx 19-27: the modal while the page shows none: form is
\* the content of its fields, call the call of updateFoodMutation it has
\* made and not heard of
EditFoodModalInit == [form |-> None, call |-> None, toast |-> NoToast]

\* the streams of the camera whose tracks run, the next stream, and the
\* calls of getUserMedia that wait for a modal that has been closed
MediaDevicesInit == [live |-> {}, next |-> 1, closed |-> 0]

\* Dashboard.tsx 42-50: the three queries of the page
DashboardQueries == {"getFoodsByDate", "getDailySummary", "getGoals"}

\* the key of a query in the cache of the queries: the procedure and its
\* input, a date for getFoodsByDate and getDailySummary, nothing for getGoals
QueryKey(op, date) ==
  [op |-> op, date |-> IF op = "getGoals" THEN None ELSE Some(date)]

\* the keys of the queries the page shows on the given date
ActiveKeys(date) == {QueryKey(op, date) : op \in DashboardQueries}

\* what the cache holds of a date that has not been fetched: the data of
\* both queries are undefined
NoData == [foodEntries |-> None, dailySummary |-> None]

\* the date the modals are opened for (their date prop) and the page is
\* first loaded on
ModalDate == 0

\* Dashboard.tsx 31-57: the page as it mounts: selectedDate is new Date(),
\* no modal is shown, the data of the three queries are undefined, and
\* every query is being fetched; now is the last reading of the clock,
\* cache is what the queries of the other dates have answered, and
\* deleteFoodMutation is the call of deleteFood the page has not heard of
DashboardAt(date) ==
  [selectedDate |-> date, now |-> date,
   showAddFood |-> FALSE, showImageUpload |-> FALSE, showBarcode |-> FALSE,
   showGoalsSettings |-> FALSE, editingFood |-> None,
   deleteFoodMutation |-> None,
   foodEntries |-> None, dailySummary |-> None, userGoals |-> None,
   fetching |-> ActiveKeys(date), cache |-> [d \in Times |-> NoData]]

\* Dashboard.tsx 311-365: none of the five modals is rendered; a modal
\* that is rendered keeps the rest of the page from being clicked
NoModal(page) ==
  /\ ~page.showAddFood
  /\ ~page.showImageUpload
  /\ ~page.showBarcode
  /\ ~page.showGoalsSettings
  /\ page.editingFood = None

\* Dashboard.tsx 42: data: foodEntries = [], the entries the page lists
foodEntriesOf(page) ==
  IF page.foodEntries = None THEN <<>> ELSE page.foodEntries[1]

DashboardInit == DashboardAt(ModalDate)

\* GoalsSettingsModal.tsx 29-41: currentGoals?.x || default for the four
\* sliders; currentGoals is the data of the getGoals query, which the page
\* keeps
CurrentGoals(page) ==
  IF page.userGoals = None
  THEN [dailyCalories |-> 2000, dailyProtein |-> 150, dailyCarbs |-> 250,
        dailyFats |-> 65]
  ELSE [dailyCalories |-> IF page.userGoals[1].dailyCalories = 0 THEN 2000
                          ELSE page.userGoals[1].dailyCalories,
        dailyProtein |-> IF page.userGoals[1].dailyProtein = 0 THEN 150
                         ELSE page.userGoals[1].dailyProtein,
        dailyCarbs |-> IF page.userGoals[1].dailyCarbs = 0 THEN 250
                       ELSE page.userGoals[1].dailyCarbs,
        dailyFats |-> IF page.userGoals[1].dailyFats = 0 THEN 65
                      ELSE page.userGoals[1].dailyFats]

\* GoalsSettingsModal.tsx 29-32 and 72: the state of the modal as it mounts
\* over the page: the sliders, the tab that is shown (defaultValue
\* "goals"), the notification that was shown last, and latest, the call of
\* updateGoalsMutation that was made last while it is not answered
GoalsModalAt(page) ==
  [sliders |-> CurrentGoals(page), tab |-> "goals", toast |-> NoToast,
   latest |-> None]

GoalsModalInit == GoalsModalAt(DashboardInit)

\* updateGoalsMutation.isPending
isPending(modal) == modal.latest # None

\* the state of the process when it starts with the given DATABASE_URL
Boot(url) ==
  /\ foodEntries = {}
  /\ dailySummary = {}
  /\ userGoals = {}
  /\ nextEntryId = 1
  /\ nextSummaryId = 1
  /\ nextGoalsId = 1
  /\ req = [p \in Procs |-> Idle]
  /\ lastGoals = [u \in Users |-> None]
  /\ customFoods = {}
  /\ nextCustomId = 1
  /\ DATABASE_URL = url
  /\ addFoodModal = AddFoodModalInit
  /\ bmiCalculator = BMICalculatorInit
  /\ once = None
  /\ barcodeModal = BarcodeModalInit
  /\ mediaDevices = MediaDevicesInit
  /\ dashboard = DashboardInit
  /\ goalsModal = GoalsModalInit
  /\ imageUploadModal = ImageUploadModalInit
  /\ editFoodModal = EditFoodModalInit

Init == Boot(Some("mysql://calcount"))

\* the process started without DATABASE_URL
InitDown == Boot(None)

\* addFoodEntry as the first statement of a handler: the INSERT, after which
\* the handler goes on to recompute the day's summary
InsertEntryUpTo(cap, p, call, entry) ==
  IF Unavailable(getDb)
  THEN /\ req' = [req EXCEPT ![p] = Done(call, FALSE, DbError)]
       /\ UNCHANGED <<foodVars, goalVars, restVars>>
  ELSE /\ nextEntryId <= cap
       /\ \E stored \in TimestampColumn(entry) :
            foodEntries' = foodEntries \cup
              {FoodEntryRow(nextEntryId, [entry EXCEPT !.date = stored])}
       /\ nextEntryId' = nextEntryId + 1
       /\ req' = [req EXCEPT ![p] = [call EXCEPT !.pc = "read",
                                                 !.inserted = {nextEntryId}]]
       /\ UNCHANGED <<dailySummary, nextSummaryId, goalVars, restVars>>

\* the INSERT while the table has received fewer than MaxEntries rows
InsertEntry(p, call, entry) == InsertEntryUpTo(MaxEntries, p, call, entry)

\* the body of an addFood request: the fields of the form and the date
WithDate(raw, date) ==
  [f \in DOMAIN raw \cup {"date"} |-> IF f = "date" THEN date ELSE raw[f]]

\* foodRouter.addFood from the input schema to the end of addFoodEntry, for
\* the call that has reached it
AddFoodCall(cap, p, call) ==
  IF AddFoodEntryIssues(call.input) # {}
  THEN /\ req' = [req EXCEPT ![p] = Done(call, FALSE, "validation")]
       /\ UNCHANGED <<foodVars, goalVars, restVars>>
  ELSE LET input == AddFoodEntrySchema(call.input)
       IN InsertEntryUpTo(cap, p, [call EXCEPT !.input = input],
            [f \in DOMAIN input \cup {"userId"} |->
               IF f = "userId" THEN call.user ELSE input[f]])

\* foodRouter.addFood up to the end of addFoodEntry
AddFoodUpTo(cap, p, user, raw, date) ==
  /\ Ready(p)
  /\ AddFoodCall(cap, p, Call("addFood", user, WithDate(raw, date)))

\* addFood while the table has received fewer than MaxEntries rows
AddFood(p, user, raw, date) == AddFoodUpTo(MaxEntries, p, user, raw, date)

\* an addFood request the browser has sent reaches foodRouter.addFood
AddFoodReceived(p) ==
  /\ req[p].pc = "sent"
  /\ req[p].op = "addFood"
  /\ AddFoodCall(MaxEntries, p, [req[p] EXCEPT !.pc = "idle"])

\* the InsertFoodEntry analyzeImage builds from the estimator's answer
ImageEntry(user, input, analysis) ==
  [userId |-> user, foodName |-> analysis.foodName,
   mealTime |-> input.mealTime,
   calories |-> MathRound(analysis.caloriesTenths),
   protein |-> analysis.protein, carbs |-> analysis.carbs,
   fats |-> analysis.fats, quantity |-> analysis.quantity,
   unit |-> analysis.unit, imageUrl |-> input.imageUrl,
   source |-> "image", date |-> input.date]

\* the InsertFoodEntry analyzeBarcode builds from the estimator's answer
BarcodeEntry(user, input, analysis) ==
  [userId |-> user, foodName |-> analysis.foodName,
   mealTime |-> input.mealTime,
   calories |-> MathRound(analysis.caloriesTenths),
   protein |-> analysis.protein, carbs |-> analysis.carbs,
   fats |-> analysis.fats, quantity |-> analysis.servingSize,
   unit |-> analysis.servingUnit, barcode |-> input.barcode,
   source |-> "barcode", date |-> input.date]

\* a handler whose catch answers zeros instead of throwing
AnalysisFailure_Swallowed(call, error) ==
  Done(call, TRUE, [calories |-> 0, protein |-> 0, carbs |-> 0, fats |-> 0])

\* catch (error) { console.error(...); throw error; } of analyzeImage and
\* analyzeBarcode
AnalysisFailure(call, error) == Done(call, FALSE, error)

\* foodRouter.analyzeImage up to await invokeLLM(...): the request waits for
\* the estimator, and other requests run meanwhile
AnalyzeImage(p, user, date) ==
  /\ Ready(p)
  /\ req' = [req EXCEPT ![p] =
               [Call("analyzeImage", user,
                     [imageUrl |-> "img", mealTime |-> "noon", date |-> date])
                EXCEPT !.pc = "llm"]]
  /\ UNCHANGED <<foodVars, goalVars, restVars>>

\* foodRouter.analyzeImage from the answer of invokeLLM to the end of
\* addFoodEntry
AnalyzeImageResumed(p, llm) ==
  /\ req[p].pc = "llm"
  /\ req[p].op = "analyzeImage"
  /\ LET call == [req[p] EXCEPT !.llm = Some(llm)]
     IN IF llm.kind # "content"
        THEN /\ req' = [req EXCEPT ![p] = AnalysisFailure(call, llm.kind)]
             /\ UNCHANGED <<foodVars, goalVars, restVars>>
        ELSE InsertEntry(p, call,
                         ImageEntry(call.user, call.input, llm.analysis))

\* foodRouter.analyzeBarcode up to await invokeLLM(...)
AnalyzeBarcode(p, user, date) ==
  /\ Ready(p)
  /\ req' = [req EXCEPT ![p] =
               [Call("analyzeBarcode", user,
                     [barcode |-> "590", mealTime |-> "noon", date |-> date])
                EXCEPT !.pc = "llm"]]
  /\ UNCHANGED <<foodVars, goalVars, restVars>>

\* foodRouter.analyzeBarcode from the answer of invokeLLM to the end of
\* addFoodEntry
AnalyzeBarcodeResumed(p, llm) ==
  /\ req[p].pc = "llm"
  /\ req[p].op = "analyzeBarcode"
  /\ LET call == [req[p] EXCEPT !.llm = Some(llm)]
     IN IF llm.kind # "content"
        THEN /\ req' = [req EXCEPT ![p] = AnalysisFailure(call, llm.kind)]
             /\ UNCHANGED <<foodVars, goalVars, restVars>>
        ELSE InsertEntry(p, call,
                         BarcodeEntry(call.user, call.input, llm.analysis))

\* the recompute of the three adding handlers: getFoodEntriesByDate and reduce
RecomputeRead(p) ==
  /\ req[p].pc = "read"
  /\ req' = [req EXCEPT ![p].pc = "lookup",
                        ![p].totals =
                          ReduceTotals(getFoodEntriesByDate(req[p].user,
                                                            req[p].input.date))]
  /\ UNCHANGED <<foodVars, goalVars, restVars>>

\* upsertDailySummary: const existing = await getDailySummary(userId, date)
UpsertLookup(p) ==
  /\ req[p].pc = "lookup"
  /\ LET rows == DailySummaryRows(req[p].user, req[p].input.date)
     IN IF rows = {}
        THEN req' = [req EXCEPT ![p].pc = "write", ![p].existing = {}]
        ELSE req' = [req EXCEPT ![p].pc = "write",
                                ![p].existing = {FirstRow(rows)}]
  /\ UNCHANGED <<foodVars, goalVars, restVars>>

\* upsertDailySummary: the UPDATE or the INSERT, then the handler returns
UpsertWrite(p) ==
  /\ req[p].pc = "write"
  /\ IF req[p].existing # {}
     THEN /\ dailySummary' =
               UpdateSummaryRows((CHOOSE r \in req[p].existing : TRUE).id,
                                 req[p].totals)
          /\ UNCHANGED nextSummaryId
     ELSE /\ dailySummary' = dailySummary \cup
               {NewSummaryRow(nextSummaryId, req[p].user, req[p].input.date,
                              req[p].totals)}
          /\ nextSummaryId' = nextSummaryId + 1
  /\ req' = [req EXCEPT ![p] = Done(req[p], TRUE, req[p].inserted)]
  /\ UNCHANGED <<foodEntries, nextEntryId, goalVars, restVars>>

\* a database statement of the recompute rejects: the handler has no
\* try/finally around its writes and the error goes to the caller
DbReject(p) ==
  /\ req[p].pc \in {"read", "lookup", "write"}
  /\ req' = [req EXCEPT ![p] = Done(req[p], FALSE, "database")]
  /\ UNCHANGED <<foodVars, goalVars, restVars>>

\* foodRouter.deleteFood, for the call that has reached it
DeleteFoodCall(p, call) ==
  /\ IF Unavailable(getDb)
     THEN /\ req' = [req EXCEPT ![p] = Done(call, FALSE, DbError)]
          /\ UNCHANGED foodEntries
     ELSE /\ foodEntries' = deleteFoodEntry(call.input.id, call.user)
          /\ req' = [req EXCEPT ![p] =
                       Done(call, TRUE,
                            MutationResponse(call.input.id, call.user))]
  /\ UNCHANGED <<dailySummary, nextEntryId, nextSummaryId, goalVars, restVars>>

\* foodRouter.deleteFood
DeleteFood(p, user, id) ==
  /\ Ready(p)
  /\ DeleteFoodCall(p, Call("deleteFood", user, [id |-> id]))

\* a deleteFood request the browser has sent reaches foodRouter.deleteFood
DeleteFoodReceived(p) ==
  /\ req[p].pc = "sent"
  /\ req[p].op = "deleteFood"
  /\ DeleteFoodCall(p, [req[p] EXCEPT !.pc = "idle"])

\* foodRouter.updateFood, for the call that has reached it
UpdateFoodCall(p, call) ==
  /\ IF AddFoodEntryIssues(call.input.data) # {}
     THEN /\ req' = [req EXCEPT ![p] = Done(call, FALSE, "validation")]
          /\ UNCHANGED foodEntries
     ELSE IF Unavailable(getDb)
     THEN /\ req' = [req EXCEPT ![p] = Done(call, FALSE, DbError)]
          /\ UNCHANGED foodEntries
     ELSE /\ foodEntries' =
               updateFoodEntry(call.input.id, call.user,
                               AddFoodEntrySchemaPartial(call.input.data))
          /\ req' = [req EXCEPT ![p] =
                       Done(call, TRUE,
                            MutationResponse(call.input.id, call.user))]
  /\ UNCHANGED <<dailySummary, nextEntryId, nextSummaryId, goalVars, restVars>>

\* foodRouter.updateFood
UpdateFood(p, user, id, raw) ==
  /\ Ready(p)
  /\ UpdateFoodCall(p, Call("updateFood", user, [id |-> id, data |-> raw]))

\* an updateFood request the browser has sent reaches foodRouter.updateFood
UpdateFoodReceived(p) ==
  /\ req[p].pc = "sent"
  /\ req[p].op = "updateFood"
  /\ UpdateFoodCall(p, [req[p] EXCEPT !.pc = "idle"])

\* what storagePut may do with the image: store it and answer its url, or
\* throw
StorageOutcomes == {"stored", "storage"}

\* the url storagePut answers for the file it has stored
StoredUrl == "url"

\* foodRouter.uploadImage for the request the browser has sent: the url
\* storagePut answers, or the error it throws, which the catch throws on
UploadImage(p, outcome) ==
  /\ req[p].pc = "sent"
  /\ req[p].op = "uploadImage"
  /\ req' = [req EXCEPT ![p] =
               IF outcome = "stored"
               THEN Done(req[p], TRUE, [url |-> StoredUrl])
               ELSE Done(req[p], FALSE, outcome)]
  /\ UNCHANGED <<foodVars, goalVars, restVars>>

\* foodRouter.getDailySummary: summary || {0, 0, 0, 0}
GetDailySummary(p, user, date) ==
  /\ Ready(p)
  /\ LET rows == DailySummaryRows(user, date)
         call == Call("getDailySummary", user, [date |-> date])
     IN IF Unavailable(getDb)
        THEN req' = [req EXCEPT ![p] = Done(call, FALSE, DbError)]
        ELSE IF rows = {}
        THEN req' = [req EXCEPT ![p] = Done(call, TRUE, ZeroTotals)]
        ELSE req' = [req EXCEPT ![p] = Done(call, TRUE, FirstRow(rows))]
  /\ UNCHANGED <<foodVars, goalVars, restVars>>

\* foodRouter.getFoodsByDate
GetFoodsByDate(p, user, date) ==
  /\ Ready(p)
  /\ LET call == Call("getFoodsByDate", user, [date |-> date])
     IN IF Unavailable(getDb)
        THEN req' = [req EXCEPT ![p] = Done(call, FALSE, DbError)]
        ELSE req' = [req EXCEPT ![p] =
                       Done(call, TRUE, getFoodEntriesByDate(user, date))]
  /\ UNCHANGED <<foodVars, goalVars, restVars>>

(* ---------------------------- custom foods ----------------------------- *)

\* bodies of addCustomFood requests; the first omits the unit
RawCustomFoods ==
  { [foodName |-> "shake", calories |-> 180, protein |-> 20, carbs |-> 9,
     fats |-> 3],
    [foodName |-> "bar", calories |-> 95, protein |-> 4, carbs |-> 14,
     fats |-> 2, unit |-> "piece"] }

\* the input schema of addCustomFood: the unit takes its default when omitted
CustomFoodSchema(raw) ==
  [f \in DOMAIN raw \cup {"unit"} |->
     IF f \in DOMAIN raw THEN raw[f] ELSE "serving"]

\* the row INSERT builds from an InsertCustomFood
CustomFoodRow(id, food) ==
  [id |-> id, userId |-> food.userId, foodName |-> food.foodName,
   calories |-> food.calories, protein |-> food.protein, carbs |-> food.carbs,
   fats |-> food.fats, unit |-> food.unit]

\* the SELECT of getCustomFoodsByUser without its condition
getCustomFoodsByUser_AnyUser(userId) == customFoods

\* getCustomFoodsByUser(userId)
getCustomFoodsByUser(userId) == {f \in customFoods : f.userId = userId}

\* an addCustomFood that also logs the food as an entry of the day
AddCustomFood_Logged(p, user, raw) ==
  /\ Ready(p)
  /\ nextCustomId <= MaxEntries
  /\ nextEntryId <= MaxEntries
  /\ LET input == CustomFoodSchema(raw)
     IN /\ customFoods' = customFoods \cup
             {CustomFoodRow(nextCustomId,
                [f \in DOMAIN input \cup {"userId"} |->
                   IF f = "userId" THEN user ELSE input[f]])}
        /\ foodEntries' = foodEntries \cup
             {FoodEntryRow(nextEntryId,
                [userId |-> user, foodName |-> input.foodName,
                 mealTime |-> "noon", calories |-> input.calories,
                 protein |-> input.protein, carbs |-> input.carbs,
                 fats |-> input.fats, quantity |-> 1, unit |-> input.unit,
                 source |-> "manual", date |-> 0])}
        /\ req' = [req EXCEPT ![p] =
                     Done([Call("addCustomFood", user, raw) EXCEPT !.input = input],
                          TRUE, {nextCustomId})]
  /\ nextCustomId' = nextCustomId + 1
  /\ nextEntryId' = nextEntryId + 1
  /\ UNCHANGED <<dailySummary, nextSummaryId, goalVars, envVars, clientVars>>

\* foodRouter.addCustomFood
AddCustomFood(p, user, raw) ==
  /\ Ready(p)
  /\ LET call == Call("addCustomFood", user, raw)
         input == CustomFoodSchema(raw)
     IN IF AddFoodEntryIssues(raw) # {}
        THEN /\ req' = [req EXCEPT ![p] = Done(call, FALSE, "validation")]
             /\ UNCHANGED customVars
        ELSE IF Unavailable(getDb)
        THEN /\ req' = [req EXCEPT ![p] = Done(call, FALSE, DbError)]
             /\ UNCHANGED customVars
        ELSE /\ nextCustomId <= MaxEntries
             /\ customFoods' = customFoods \cup
                  {CustomFoodRow(nextCustomId,
                     [f \in DOMAIN input \cup {"userId"} |->
                        IF f = "userId" THEN user ELSE input[f]])}
             /\ nextCustomId' = nextCustomId + 1
             /\ req' = [req EXCEPT ![p] =
                          Done([call EXCEPT !.input = input], TRUE, {nextCustomId})]
  /\ UNCHANGED <<foodVars, goalVars, envVars, clientVars>>

\* foodRouter.getCustomFoods
GetCustomFoods(p, user) ==
  /\ Ready(p)
  /\ LET call == Call("getCustomFoods", user, <<>>)
     IN IF Unavailable(getDb)
        THEN req' = [req EXCEPT ![p] = Done(call, FALSE, DbError)]
        ELSE req' = [req EXCEPT ![p] =
                       Done(call, TRUE, getCustomFoodsByUser(user))]
  /\ UNCHANGED <<foodVars, goalVars, restVars>>

(* ------------------------------- goals --------------------------------- *)

MinDailyCalories == 500
MaxDailyCalories == 10000
MaxDailyProtein == 500
MaxDailyCarbs == 1000
MaxDailyFats == 500

\* bodies of updateGoals requests; the first is the empty body {}
RawGoals ==
  { <<>>,
    [dailyCalories |-> 2500],
    [dailyCalories |-> 100],
    [dailyCalories |-> 10001],
    [dailyProtein |-> -10],
    [dailyProtein |-> 501],
    [dailyCarbs |-> -1],
    [dailyCarbs |-> 1001],
    [dailyFats |-> -1],
    [dailyFats |-> 501],
    [dailyCalories |-> 2500, dailyCarbs |-> 1001],
    [dailyCalories |-> 1800, dailyProtein |-> 180, dailyCarbs |-> 200,
     dailyFats |-> 60],
    [dailyCalories |-> 500, dailyProtein |-> 0, dailyCarbs |-> 1000,
     dailyFats |-> 500],
    [dailyCalories |-> 10000, dailyProtein |-> 500],
    [height |-> 175, weight |-> 75, age |-> 28, gender |-> "male",
     activityLevel |-> "moderate"] }

\* the range check with .max(n) left out
RangeIssues_NoMax(raw, field, min, max) ==
  IF field \notin DOMAIN raw THEN {}
  ELSE IF raw[field] < min
       THEN {[path |-> field, code |-> "too_small", bound |-> min]} ELSE {}

\* .min(n) / .max(n) of one field of the updateGoals input: the issues raised
RangeIssues(raw, field, min, max) ==
  IF field \notin DOMAIN raw THEN {}
  ELSE (IF raw[field] < min
        THEN {[path |-> field, code |-> "too_small", bound |-> min]} ELSE {})
       \cup
       (IF raw[field] > max
        THEN {[path |-> field, code |-> "too_big", bound |-> max]} ELSE {})

\* the input schema of updateGoals: every issue of the body
UpdateGoalsIssues(raw) ==
  RangeIssues(raw, "dailyCalories", MinDailyCalories, MaxDailyCalories)
    \cup RangeIssues(raw, "dailyProtein", 0, MaxDailyProtein)
    \cup RangeIssues(raw, "dailyCarbs", 0, MaxDailyCarbs)
    \cup RangeIssues(raw, "dailyFats", 0, MaxDailyFats)

\* the defaults with the fats goal of another diet
DefaultGoals_OtherFats ==
  [dailyCalories |-> 2000, dailyProtein |-> 150, dailyCarbs |-> 250,
   dailyFats |-> 70]

\* the answer of getGoals when no row is stored
DefaultGoals ==
  [dailyCalories |-> 2000, dailyProtein |-> 150, dailyCarbs |-> 250,
   dailyFats |-> 65]

NullableGoalColumns == {"height", "weight", "age", "gender", "activityLevel"}

\* the userGoals row with every column at its declared default
DefaultGoalsRow(id, userId) ==
  [id |-> id, userId |-> userId, height |-> None, weight |-> None,
   age |-> None, gender |-> None, activityLevel |-> None,
   dailyCalories |-> 2000, dailyProtein |-> 150, dailyCarbs |-> 250,
   dailyFats |-> 65]

\* UPDATE userGoals SET data on one row
SetGoalColumns(row, data) ==
  [f \in DOMAIN row |->
     IF f \in DOMAIN data
     THEN (IF f \in NullableGoalColumns THEN Some(data[f]) ELSE data[f])
     ELSE row[f]]

\* an INSERT of the userId alone
NewGoalsRow_UserOnly(id, userId, data) == DefaultGoalsRow(id, userId)

\* INSERT INTO userGoals VALUES {userId, ...data}
NewGoalsRow(id, userId, data) == SetGoalColumns(DefaultGoalsRow(id, userId), data)

\* the rows the SELECT of getUserGoals matches before .limit(1)
getUserGoals(userId) == {g \in userGoals : g.userId = userId}

\* foodRouter.getGoals: goals || defaults
GetGoals(p, user) ==
  /\ Ready(p)
  /\ LET rows == getUserGoals(user)
         call == Call("getGoals", user, <<>>)
     IN IF Unavailable(getDb)
        THEN req' = [req EXCEPT ![p] = Done(call, FALSE, DbError)]
        ELSE IF rows = {}
        THEN req' = [req EXCEPT ![p] = Done(call, TRUE, DefaultGoals)]
        ELSE \E g \in rows : req' = [req EXCEPT ![p] = Done(call, TRUE, g)]
  /\ UNCHANGED <<foodVars, goalVars, restVars>>

\* foodRouter.updateGoals: the input schema, then upsertUserGoals up to
\* const existing = await getUserGoals(userId)
UpdateGoalsCall(p, call) ==
  LET issues == UpdateGoalsIssues(call.input)
  IN IF issues # {}
     THEN req' = [req EXCEPT ![p] = Done(call, FALSE, issues)]
     ELSE IF Unavailable(getDb)
     THEN req' = [req EXCEPT ![p] = Done(call, FALSE, DbError)]
     ELSE req' = [req EXCEPT ![p] = [call EXCEPT !.pc = "goalsWrite",
                                       !.existing = getUserGoals(call.user)]]

UpdateGoals(p, user, raw) ==
  /\ Ready(p)
  /\ UpdateGoalsCall(p, Call("updateGoals", user, raw))
  /\ UNCHANGED <<foodVars, goalVars, restVars>>

\* an updateGoals request the browser has sent reaches foodRouter.updateGoals
UpdateGoalsReceived(p) ==
  /\ req[p].pc = "sent"
  /\ req[p].op = "updateGoals"
  /\ UpdateGoalsCall(p, [req[p] EXCEPT !.pc = "idle"])
  /\ UNCHANGED <<foodVars, goalVars, restVars>>

\* what update().set(data) throws for a data without a value
NoValuesToSet == "No values to set"

\* upsertUserGoals: the UPDATE ... WHERE userId, which the query builder
\* refuses for a body without a field, or the INSERT, which the unique key
\* on userId refuses when a row has appeared meanwhile
GoalsWrite(p) ==
  /\ req[p].pc = "goalsWrite"
  /\ LET user == req[p].user
         data == req[p].input
     IN IF req[p].existing # {} /\ DOMAIN data = {}
        THEN /\ req' = [req EXCEPT ![p] = Done(req[p], FALSE, NoValuesToSet)]
             /\ UNCHANGED goalVars
        ELSE IF req[p].existing # {}
        THEN /\ userGoals' = {IF g.userId = user THEN SetGoalColumns(g, data)
                              ELSE g : g \in userGoals}
             /\ lastGoals' = [lastGoals EXCEPT ![user] = Some(data)]
             /\ req' = [req EXCEPT ![p] = Done(req[p], TRUE, "updated")]
             /\ UNCHANGED nextGoalsId
        ELSE IF getUserGoals(user) # {}
        THEN /\ req' = [req EXCEPT ![p] = Done(req[p], FALSE, "duplicate")]
             /\ UNCHANGED goalVars
        ELSE /\ userGoals' = userGoals \cup {NewGoalsRow(nextGoalsId, user, data)}
             /\ nextGoalsId' = nextGoalsId + 1
             /\ lastGoals' = [lastGoals EXCEPT ![user] = Some(data)]
             /\ req' = [req EXCEPT ![p] = Done(req[p], TRUE, "inserted")]
  /\ UNCHANGED <<foodVars, restVars>>

(* ------------------------- the numbers of the browser ------------------ *)

\* the base of the digits a natural number of any size is written in
Radix == 2 ^ 15

\* a natural number as its digits, the least first and the last not zero
RECURSIVE Digits(_)
Digits(n) == IF n = 0 THEN <<>> ELSE <<n % Radix>> \o Digits(n \div Radix)

\* the number the digits stand for
RECURSIVE NatOf(_)
NatOf(a) == IF a = <<>> THEN 0 ELSE Head(a) + Radix * NatOf(Tail(a))

\* the digits without zeros at the end
RECURSIVE Trim(_)
Trim(a) ==
  IF a = <<>> THEN a
  ELSE IF a[Len(a)] = 0 THEN Trim(SubSeq(a, 1, Len(a) - 1)) ELSE a

\* a + b + c for a carry c
RECURSIVE PlusCarry(_, _, _)
PlusCarry(a, b, c) ==
  IF a = <<>> /\ b = <<>> THEN Digits(c)
  ELSE LET s == (IF a = <<>> THEN 0 ELSE Head(a))
                + (IF b = <<>> THEN 0 ELSE Head(b)) + c
       IN <<s % Radix>>
          \o PlusCarry(IF a = <<>> THEN a ELSE Tail(a),
                       IF b = <<>> THEN b ELSE Tail(b), s \div Radix)

Plus(a, b) == PlusCarry(a, b, 0)

\* a - b - c for a borrow c and a >= b + c
RECURSIVE MinusBorrow(_, _, _)
MinusBorrow(a, b, c) ==
  IF a = <<>> THEN <<>>
  ELSE LET d == Head(a) - (IF b = <<>> THEN 0 ELSE Head(b)) - c
       IN <<(d + Radix) % Radix>>
          \o MinusBorrow(Tail(a), IF b = <<>> THEN b ELSE Tail(b),
                         IF d < 0 THEN 1 ELSE 0)

Minus(a, b) == Trim(MinusBorrow(a, b, 0))

\* a < b on the digits from the i-th down, for numbers of one length
RECURSIVE LessFrom(_, _, _)
LessFrom(a, b, i) ==
  IF i = 0 THEN FALSE
  ELSE IF a[i] # b[i] THEN a[i] < b[i] ELSE LessFrom(a, b, i - 1)

Less(a, b) ==
  IF Len(a) # Len(b) THEN Len(a) < Len(b) ELSE LessFrom(a, b, Len(a))

\* a * d + c for one digit d and a carry c
RECURSIVE TimesDigit(_, _, _)
TimesDigit(a, d, c) ==
  IF a = <<>> THEN Digits(c)
  ELSE LET s == Head(a) * d + c
       IN <<s % Radix>> \o TimesDigit(Tail(a), d, s \div Radix)

\* a * Radix ^ n
ShiftDigits(a, n) == IF a = <<>> THEN a ELSE [i \in 1..n |-> 0] \o a

RECURSIVE Product(_, _)
Product(a, b) ==
  IF b = <<>> THEN <<>>
  ELSE Plus(Trim(TimesDigit(a, Head(b), 0)), ShiftDigits(Product(a, Tail(b)), 1))

\* quotient and remainder of a by one digit d
RECURSIVE DivDigit(_, _)
DivDigit(a, d) ==
  IF a = <<>> THEN [q |-> <<>>, r |-> 0]
  ELSE LET high == DivDigit(Tail(a), d)
           s == high.r * Radix + Head(a)
       IN [q |-> <<s \div d>> \o high.q, r |-> s % d]

\* the number of binary digits of n
RECURSIVE Bits(_)
Bits(n) == IF n = 0 THEN 0 ELSE 1 + Bits(n \div 2)

BitLength(a) == IF a = <<>> THEN 0 ELSE 15 * (Len(a) - 1) + Bits(a[Len(a)])

\* a * 2 ^ k
ShiftLeft(a, k) == ShiftDigits(Trim(TimesDigit(a, 2 ^ (k % 15), 0)), k \div 15)

\* a \div 2 ^ k
ShiftRight(a, k) ==
  Trim(DivDigit(SubSeq(a, k \div 15 + 1, Len(a)), 2 ^ (k % 15)).q)

\* the quotient q found too small and the remainder r that goes with it,
\* raised until r < b
RECURSIVE Corrected(_, _, _)
Corrected(q, r, b) ==
  IF Less(r, b) THEN [q |-> q, r |-> r]
  ELSE Corrected(q + 1, Minus(r, b), b)

\* quotient and remainder of r by b for r < b * Radix: the quotient is
\* first estimated from the leading digits
QuotientDigit(r, b) ==
  LET n == Len(b)
      leading == (IF Len(r) > n THEN r[n + 1] * Radix ELSE 0)
                 + (IF Len(r) >= n THEN r[n] ELSE 0)
      q == leading \div (b[n] + 1)
  IN Corrected(q, Minus(r, Trim(TimesDigit(b, q, 0))), b)

\* the digit and the remainder of a step put below the digits q
Below(q, step) == [q |-> <<step.q>> \o q, r |-> step.r]

\* the division that has come to high taken one digit further
DivStep(digit, high, b) ==
  Below(high.q, QuotientDigit(Trim(<<digit>> \o high.r), b))

\* quotient and remainder of a by b # 0, a digit of a at a time
RECURSIVE DivMod(_, _)
DivMod(a, b) ==
  IF a = <<>> THEN [q |-> <<>>, r |-> <<>>]
  ELSE DivStep(Head(a), DivMod(Tail(a), b), b)

\* a Number of JavaScript, an IEEE 754 double: (-1) ^ neg * m * 2 ^ e with
\* m < 2 ^ 53 (at most 2 ^ 53 where a sum was rounded up to it)
Double(neg, m, e) == [neg |-> neg, m |-> m, e |-> e]

\* how r compares with half: -1 below, 0 equal, 1 above
Compared(r, half) ==
  IF Less(r, half) THEN -1 ELSE IF Less(half, r) THEN 1 ELSE 0

\* n / 2 ^ k for k > 0 and the whole part q of it: the whole part, and how
\* the rest compares with a half
SplitAt(n, k, q) ==
  [whole |-> q,
   rest |-> Compared(Minus(n, ShiftLeft(q, k)), ShiftLeft(<<1>>, k - 1))]

\* n / 2 ^ k for k > 0
Split(n, k) == SplitAt(n, k, ShiftRight(n, k))

\* the whole part of a split raised by one where the rest is above a half,
\* and where it is a half and the whole part is odd
Rounded(neg, split, e) ==
  Double(neg,
         IF split.rest > 0 \/ (split.rest = 0 /\ split.whole[1] % 2 = 1)
         THEN Plus(split.whole, <<1>>) ELSE split.whole,
         e)

\* the double nearest to (-1) ^ neg * n * 2 ^ e, of two nearest the even one
RoundToNearest(neg, n, e) ==
  IF BitLength(n) <= 53 THEN Double(neg, n, e)
  ELSE Rounded(neg, Split(n, BitLength(n) - 53), e + BitLength(n) - 53)

\* the double of an integer
Number(n) == Double(n < 0, Digits(IF n < 0 THEN -n ELSE n), 0)

\* x * y
Mul(x, y) == RoundToNearest(x.neg # y.neg, Product(x.m, y.m), x.e + y.e)

\* the double of the division d: twice its quotient, and one more where it
\* left a remainder, rounded
Quotient(neg, d, e) ==
  RoundToNearest(neg, TimesDigit(Trim(d.q), 2, IF d.r = <<>> THEN 0 ELSE 1), e)

\* x / y for y # 0: 56 binary digits of the quotient, and one more that
\* tells whether the division left a remainder, rounded
Div(x, y) ==
  LET t == 15 * Len(y.m) - BitLength(y.m)
      k == IF BitLength(x.m) > 56 + BitLength(y.m) THEN 0
           ELSE 56 + BitLength(y.m) - BitLength(x.m)
  IN Quotient(x.neg # y.neg,
              DivMod(ShiftLeft(x.m, k + t), ShiftLeft(y.m, t)),
              x.e - y.e - k - 1)

\* the double a decimal literal of the value n / d denotes
Literal(n, d) == Div(Number(n), Number(d))

\* the whole part of |x| * f and how the rest compares with a half: -1
\* below, 0 equal, 1 above
Scaled(x, f) ==
  IF x.e >= 0
  THEN [whole |-> ShiftLeft(Trim(TimesDigit(x.m, f, 0)), x.e), rest |-> -1]
  ELSE Split(Trim(TimesDigit(x.m, f, 0)), -x.e)

\* the integer nearest to a split, of two nearest the greater one
HalfUp(neg, s) ==
  IF neg THEN -(NatOf(s.whole) + (IF s.rest > 0 THEN 1 ELSE 0))
  ELSE NatOf(s.whole) + (IF s.rest >= 0 THEN 1 ELSE 0)

\* the integer nearest to a split, of two nearest the one farther from zero
HalfAway(neg, s) ==
  IF neg THEN -(NatOf(s.whole) + (IF s.rest >= 0 THEN 1 ELSE 0))
  ELSE NatOf(s.whole) + (IF s.rest >= 0 THEN 1 ELSE 0)

\* Math.round(x): the nearest integer, of two nearest the greater one
Math_round(x) == HalfUp(x.neg, Scaled(x, 1))

\* x.toFixed(0) and x.toFixed(1) read as a number, in units of 1 / f for f
\* = 1 and f = 10: the nearest, of two nearest the one farther from zero
toFixed(x, f) == HalfAway(x.neg, Scaled(x, f))

(* ---------------------------- BMI calculator --------------------------- *)

\* what the user may type into the number fields and pick in the selects
Heights == {175, 160}
Weights == {75, 80}
Ages == {28, 0}
Genders == {"male", "female", "other"}
ActivityLevels == {"sedentary", "light", "moderate", "active", "veryActive"}
BmiGoals == {"maintain", "lose", "gain"}

\* the fields of the worked example
ExampleFields == [height |-> 175, weight |-> 75, age |-> 28]

\* the fields of a small body, whose goals the sliders cannot hold
ToastHeights == {50}
ToastWeights == {ExampleFields.weight, 10}

\* BMICalculator.tsx 32-38: each literal as the numerator and the
\* denominator of its decimal
ACTIVITY_MULTIPLIERS ==
  [sedentary |-> <<12, 10>>, light |-> <<1375, 1000>>,
   moderate |-> <<155, 100>>, active |-> <<1725, 1000>>,
   veryActive |-> <<19, 10>>]

\* ACTIVITY_MULTIPLIERS[activityLevel] || 1.55
Multiplier(activityLevel) ==
  IF activityLevel \in DOMAIN ACTIVITY_MULTIPLIERS
  THEN ACTIVITY_MULTIPLIERS[activityLevel] ELSE <<155, 100>>

\* proteinRatio, carbRatio and fatRatio of calculateMacros: 0.3, 0.45 and
\* 0.25, to lose 0.35, 0.4 and 0.25, to gain 0.3, 0.5 and 0.2, each
\* literal as the numerator and the denominator of its decimal
MacroRatios(goal) ==
  IF goal = "lose"
  THEN [protein |-> <<35, 100>>, carbs |-> <<4, 10>>, fats |-> <<25, 100>>]
  ELSE IF goal = "gain"
  THEN [protein |-> <<3, 10>>, carbs |-> <<5, 10>>, fats |-> <<2, 10>>]
  ELSE [protein |-> <<3, 10>>, carbs |-> <<45, 100>>, fats |-> <<25, 100>>]

\* the kcal a gram of the macro is counted as
KcalPerGram == [protein |-> 4, carbs |-> 4, fats |-> 9]

\* calculateMacros(calories, goal) for the double calories:
\* Math.round((calories * ratio) / 4), for the fats / 9
calculateMacros(calories, goal) ==
  [macro \in {"protein", "carbs", "fats"} |->
     Math_round(Div(Mul(calories,
                        Literal(MacroRatios(goal)[macro][1],
                                MacroRatios(goal)[macro][2])),
                    Number(KcalPerGram[macro])))]

\* the Mifflin-St Jeor formula without the branch on gender
bmr_Unisex(w, h, a, gender) == 40 * w + 25 * h - 20 * a - 644

\* bmr = 10 * w + 6.25 * h - 5 * a + 5 for "male", - 161 otherwise, counted
\* in quarters of a kcal: on whole w, h and a no term and no sum is rounded
bmr(w, h, a, gender) ==
  IF gender = "male" THEN 40 * w + 25 * h - 20 * a + 20
  ELSE 40 * w + 25 * h - 20 * a - 644

\* the double of n quarters
Quarters(n) == Double(n < 0, Digits(IF n < 0 THEN -n ELSE n), -2)

\* tdeeValue = bmr * multiplier
tdeeValue(form) ==
  Mul(Quarters(bmr(form.weight[1], form.height[1], form.age[1], form.gender)),
      Literal(Multiplier(form.activityLevel)[1],
              Multiplier(form.activityLevel)[2]))

\* the factor on tdeeValue: 0.85 to lose, 1.1 to gain, as the numerator
\* and the denominator of its decimal
GoalFactor(goal) == IF goal = "lose" THEN <<85, 100>> ELSE <<11, 10>>

\* adjustedCalories: tdeeValue, * 0.85 to lose, * 1.1 to gain
\* value * 0.85 to lose, value * 1.1 to gain, value otherwise
Adjusted(value, goal) ==
  IF goal \in {"lose", "gain"}
  THEN Mul(value, Literal(GoalFactor(goal)[1], GoalFactor(goal)[2]))
  ELSE value

adjustedCalories(form) == Adjusted(tdeeValue(form), form.goal)

\* heightInMeters = h / 100
heightInMeters(form) == Div(Number(form.height[1]), Number(100))

\* bmiValue = w / (heightInMeters * heightInMeters)
\* x * x
Square(x) == Mul(x, x)

bmiValue(form) == Div(Number(form.weight[1]), Square(heightInMeters(form)))

\* BMICalculator.tsx 98, 117-132: what calculateBMI stores, bmi in tenths
\* (toFixed(1)), tdee (toFixed(0)) and the macros, and what it hands to
\* onCalculate
Outcome(form, bmi, tdee, dailyCalories, macros) ==
  [stored |-> [bmi |-> Some(bmi), tdee |-> Some(tdee),
               suggestedMacros |-> Some(macros)],
   onCalculate |->
     [height |-> form.height[1], weight |-> form.weight[1],
      age |-> form.age[1], gender |-> form.gender,
      activityLevel |-> form.activityLevel,
      dailyCalories |-> dailyCalories,
      dailyProtein |-> macros.protein, dailyCarbs |-> macros.carbs,
      dailyFats |-> macros.fats]]

\* the outcome for the doubles bmiValue and adjustedCalories
OutcomeOf(form, bmi, calories) ==
  Outcome(form, toFixed(bmi, 10), toFixed(calories, 1), Math_round(calories),
          calculateMacros(calories, form.goal))

\* BMICalculator.tsx 81-133, past the alerts
calculateBMI(form) == OutcomeOf(form, bmiValue(form), adjustedCalories(form))

\* what calculateBMI stores
BMIResult(form) == calculateBMI(form).stored

\* the argument of onCalculate
OnCalculateData(form) == calculateBMI(form).onCalculate

\* the fields of a form that calculateBMI reads
BmiFields == {"height", "weight", "age", "gender", "activityLevel", "goal"}

\* the forms the users of this model fill in and calculateBMI accepts
BmiForms ==
  [height : {Some(v) : v \in Heights \cup ToastHeights},
   weight : {Some(v) : v \in Weights \cup ToastWeights},
   age : {Some(v) : v \in {a \in Ages : a > 0}},
   gender : Genders, activityLevel : ActivityLevels, goal : BmiGoals]

\* calculateBMI on each of these forms, worked out once
Calculations == {<<form, calculateBMI(form)>> : form \in BmiForms}

\* calculateBMI on the fields of the calculator
Calculation(calculator) ==
  LET form == [f \in BmiFields |-> calculator[f]]
  IN IF form \in BmiForms
     THEN (CHOOSE done \in Calculations : done[1] = form)[2]
     ELSE calculateBMI(form)

\* the fields calculateBMI refuses with an alert
BMIRefused(form) ==
  IF form.height = None \/ form.weight = None \/ form.age = None THEN TRUE
  ELSE form.height[1] <= 0 \/ form.weight[1] <= 0 \/ form.age[1] <= 0

\* a modal that sends the calculated goals at once
handleBMICalculate_Send(p, user, data) ==
  req' = [req EXCEPT ![p] =
            Sent("updateGoals", user,
                 [f \in {"dailyCalories", "dailyProtein", "dailyCarbs",
                         "dailyFats"} |-> data[f]])]

\* handleBMICalculate of GoalsSettingsModal: an empty body
handleBMICalculate(p, user, data) == UNCHANGED req

\* BMICalculator.tsx 152-228: the fields of the calculator, which the tab
\* "bmi" renders
SetHeight(v) ==
  /\ dashboard.showGoalsSettings
  /\ goalsModal.tab = "bmi"
  /\ bmiCalculator' = [bmiCalculator EXCEPT !.height = Some(v)]
  /\ UNCHANGED <<foodVars, goalVars, customVars, envVars, req, addFoodModal, once, uiVars>>

SetWeight(v) ==
  /\ dashboard.showGoalsSettings
  /\ goalsModal.tab = "bmi"
  /\ bmiCalculator' = [bmiCalculator EXCEPT !.weight = Some(v)]
  /\ UNCHANGED <<foodVars, goalVars, customVars, envVars, req, addFoodModal, once, uiVars>>

SetAge(v) ==
  /\ dashboard.showGoalsSettings
  /\ goalsModal.tab = "bmi"
  /\ bmiCalculator' = [bmiCalculator EXCEPT !.age = Some(v)]
  /\ UNCHANGED <<foodVars, goalVars, customVars, envVars, req, addFoodModal, once, uiVars>>

SetGender(v) ==
  /\ dashboard.showGoalsSettings
  /\ goalsModal.tab = "bmi"
  /\ bmiCalculator' = [bmiCalculator EXCEPT !.gender = v]
  /\ UNCHANGED <<foodVars, goalVars, customVars, envVars, req, addFoodModal, once, uiVars>>

SetActivityLevel(v) ==
  /\ dashboard.showGoalsSettings
  /\ goalsModal.tab = "bmi"
  /\ bmiCalculator' = [bmiCalculator EXCEPT !.activityLevel = v]
  /\ UNCHANGED <<foodVars, goalVars, customVars, envVars, req, addFoodModal, once, uiVars>>

SetGoal(v) ==
  /\ dashboard.showGoalsSettings
  /\ goalsModal.tab = "bmi"
  /\ bmiCalculator' = [bmiCalculator EXCEPT !.goal = v]
  /\ UNCHANGED <<foodVars, goalVars, customVars, envVars, req, addFoodModal, once, uiVars>>

\* the Calculate button of the calculator in the goals modal of the user,
\* whose updateGoals mutation is the slot p
CalculateBMI(p, user) ==
  /\ dashboard.showGoalsSettings
  /\ goalsModal.tab = "bmi"
  /\ IF BMIRefused(bmiCalculator)
     THEN UNCHANGED <<bmiCalculator, req>>
     ELSE LET calculation == Calculation(bmiCalculator)
          IN /\ bmiCalculator' =
                  [bmiCalculator EXCEPT
                     !.bmi = calculation.stored.bmi,
                     !.tdee = calculation.stored.tdee,
                     !.suggestedMacros = calculation.stored.suggestedMacros]
             /\ handleBMICalculate(p, user, calculation.onCalculate)
  /\ UNCHANGED <<foodEntries, dailySummary, nextEntryId, nextSummaryId,
                 goalVars, customVars, envVars, addFoodModal, once, uiVars>>

\* BMICalculator.tsx 271-288 and GoalsSettingsModal.tsx 56-63: the button
\* "Apply as Daily Goal", rendered once bmi, tdee and suggestedMacros are set
\* and never disabled: handleApplyBMIGoals sends updateGoals, then the
\* notification is shown; p is the call of the mutation
ApplyBMIGoals(p, user) ==
  /\ dashboard.showGoalsSettings
  /\ goalsModal.tab = "bmi"
  /\ bmiCalculator.bmi # None
  /\ bmiCalculator.tdee # None
  /\ bmiCalculator.suggestedMacros # None
  /\ Free(p)
  /\ req' = [req EXCEPT ![p] =
               Sent("updateGoals", user,
                    [dailyCalories |-> bmiCalculator.tdee[1],
                     dailyProtein |-> bmiCalculator.suggestedMacros[1].protein,
                     dailyCarbs |-> bmiCalculator.suggestedMacros[1].carbs,
                     dailyFats |-> bmiCalculator.suggestedMacros[1].fats])]
  /\ goalsModal' =
       [goalsModal EXCEPT !.toast = ToastSuccess("Goals applied successfully!"),
                          !.latest = Some(p)]
  /\ UNCHANGED <<foodVars, goalVars, customVars, envVars, addFoodModal,
                 bmiCalculator, once, barcodeModal, mediaDevices, dashboard,
            imageUploadModal, editFoodModal>>

\* GoalsSettingsModal.tsx 72-78 and 158: a click on the trigger of the tab
\* that is not shown shows it. TabsContent renders the content of the
\* shown tab alone: the BMICalculator mounts over the goals of the page as
\* "bmi" is shown, and is unmounted, its fields and its result lost, as
\* "goals" is shown; the sliders are state of the modal and stay
TabsTrigger(value) ==
  /\ dashboard.showGoalsSettings
  /\ goalsModal.tab # value
  /\ goalsModal' = [goalsModal EXCEPT !.tab = value]
  /\ bmiCalculator' =
       IF value = "bmi" THEN BMICalculatorOver(dashboard.userGoals)
       ELSE BMICalculatorInit
  /\ UNCHANGED <<foodVars, goalVars, customVars, envVars, req, addFoodModal,
                 once, barcodeModal, mediaDevices, dashboard,
                 imageUploadModal, editFoodModal>>

\* GoalsSettingsModal.tsx 78-139: the user moves the four sliders, which
\* the tab "goals" renders
SetSliders(goals) ==
  /\ dashboard.showGoalsSettings
  /\ goalsModal.tab = "goals"
  /\ goalsModal' = [goalsModal EXCEPT !.sliders = goals]
  /\ UNCHANGED <<foodVars, goalVars, customVars, envVars, req, addFoodModal,
                 bmiCalculator, once, barcodeModal, mediaDevices, dashboard,
            imageUploadModal, editFoodModal>>

\* GoalsSettingsModal.tsx 43-50 and 147-154: the button "Save Goals" of
\* the tab "goals", disabled while updateGoalsMutation.isPending:
\* handleSaveGoals sends the rounded values of the sliders
HandleSaveGoals(p, user) ==
  /\ dashboard.showGoalsSettings
  /\ goalsModal.tab = "goals"
  /\ ~isPending(goalsModal)
  /\ Free(p)
  /\ req' = [req EXCEPT ![p] =
               Sent("updateGoals", user,
                    [dailyCalories |->
                       MathRound(goalsModal.sliders.dailyCalories * 10),
                     dailyProtein |->
                       RoundToTenth(goalsModal.sliders.dailyProtein),
                     dailyCarbs |-> RoundToTenth(goalsModal.sliders.dailyCarbs),
                     dailyFats |-> RoundToTenth(goalsModal.sliders.dailyFats)])]
  /\ goalsModal' = [goalsModal EXCEPT !.latest = Some(p)]
  /\ UNCHANGED <<foodVars, goalVars, customVars, envVars, addFoodModal,
                 bmiCalculator, once, barcodeModal, mediaDevices, dashboard,
            imageUploadModal, editFoodModal>>

\* GoalsSettingsModal.tsx 19-27: onSuccess and onError of
\* updateGoalsMutation for the answer r of its call p: a notification; on
\* success the page closes the modal (Dashboard.tsx 347-354)
updateGoalsMutation(modal, p, r) ==
  IF r.resp.ok
  THEN [GoalsModalInit
          EXCEPT !.toast = ToastSuccess("Goals updated successfully!")]
  ELSE [modal EXCEPT !.toast = ToastFailure(r, "Failed to update goals"),
                     !.latest = IF @ = Some(p) THEN None ELSE @]

(* ------------------- calculateMacros and AddFoodModal ------------------ *)

\* what the estimator may answer to calculateMacros
MacroAnswers ==
  { [caloriesTenths |-> 1652, protein |-> 31, carbs |-> 0, fats |-> 4] }

MacroOutcomes == {[kind |-> "content", analysis |-> a] : a \in MacroAnswers}

\* a handler whose catch throws the error on
MacrosFallback_Rethrown(call, error) == Done(call, FALSE, error)

\* catch (error) { ...; return { calories: 0, protein: 0, carbs: 0, fats: 0 } }
MacrosFallback(call, error) ==
  Done(call, TRUE, [calories |-> 0, protein |-> 0, carbs |-> 0, fats |-> 0])

\* the numbers of the parsed answer as the handler returns them; the model
\* keeps calories in tenths
ParsedMacros(analysis) ==
  [calories |-> analysis.caloriesTenths, protein |-> analysis.protein,
   carbs |-> analysis.carbs, fats |-> analysis.fats]

\* what the user may type as the name of the food, with foodName.trim().length
FoodNames == {"oats", "eggs", "ox"}
TrimmedLength(name) == IF name = "ox" THEN 2 ELSE 4

\* the user types the name of the food
TypeName(name) ==
  /\ dashboard.showAddFood
  /\ addFoodModal' = [addFoodModal EXCEPT !.foodName = Some(name),
                                        !.timer = TRUE]
  /\ UNCHANGED <<foodVars, goalVars, customVars, envVars, bmiCalculator, once, uiVars, req>>

\* the user types calories, protein, carbs and fats
TypeMacros(raw) ==
  /\ dashboard.showAddFood
  /\ addFoodModal' = [addFoodModal EXCEPT !.calories = Some(raw.calories),
                                        !.protein = Some(raw.protein),
                                        !.carbs = Some(raw.carbs),
                                        !.fats = Some(raw.fats)]
  /\ UNCHANGED <<foodVars, goalVars, customVars, envVars, bmiCalculator, once, uiVars, req>>

\* what the user may type as the quantity
Quantities == {1, 2}

\* the user types the quantity
TypeQuantity(v) ==
  /\ dashboard.showAddFood
  /\ addFoodModal' = [addFoodModal EXCEPT !.quantity = Some(v),
                                        !.timer = TRUE]
  /\ UNCHANGED <<foodVars, goalVars, customVars, envVars, bmiCalculator, once, uiVars, req>>

\* what the user may pick in the Unit select
Units == {"serving", "grams"}

\* part_000 142: the Unit select, which tells a change of its value:
\* setUnit, and the effect on [foodName, quantity, unit] sets the timer anew
SetUnit(value) ==
  /\ dashboard.showAddFood
  /\ value # addFoodModal.unit
  /\ addFoodModal' = [addFoodModal EXCEPT !.unit = value, !.timer = TRUE]
  /\ UNCHANGED <<foodVars, goalVars, customVars, envVars, bmiCalculator, once, uiVars, req>>

\* what the user may pick in the Meal Time select of a modal
MealTimes == {"noon", "evening"}

\* part_000 115: the Meal Time select, which tells a change of its value:
\* setSelectedMealTime; the effect of the timer does not depend on it
SetSelectedMealTime(value) ==
  /\ dashboard.showAddFood
  /\ value # addFoodModal.selectedMealTime
  /\ addFoodModal' = [addFoodModal EXCEPT !.selectedMealTime = value]
  /\ UNCHANGED <<foodVars, goalVars, customVars, envVars, bmiCalculator, once, uiVars, req>>

\* foodName.trim().length > 2
NameLongEnough(form) ==
  IF form.foodName = None THEN FALSE
  ELSE TrimmedLength(form.foodName[1]) > 2

\* the timer that the last change of foodName, quantity or unit has set
\* fires 500 ms after it: for a name that is long enough
\* setIsCalculating(true) and calculateMacrosMutation.mutate(...), whatever
\* is outstanding; p is the call of the mutation
EstimateSend(p, user) ==
  /\ dashboard.showAddFood
  /\ addFoodModal.timer
  /\ IF NameLongEnough(addFoodModal)
     THEN /\ Free(p)
          /\ addFoodModal' = [addFoodModal EXCEPT !.timer = FALSE,
                                                !.isCalculating = TRUE,
                                                !.pending = @ \cup {p},
                                                !.latest = Some(p)]
          /\ req' = [req EXCEPT ![p] =
                       [Call("calculateMacros", user,
                             [foodName |-> addFoodModal.foodName[1],
                              quantity |-> addFoodModal.quantity[1],
                              unit |-> addFoodModal.unit])
                        EXCEPT !.pc = "llm"]]
     ELSE /\ addFoodModal' = [addFoodModal EXCEPT !.timer = FALSE]
          /\ UNCHANGED req
  /\ UNCHANGED <<foodVars, goalVars, customVars, envVars, bmiCalculator, once, uiVars>>

\* foodRouter.calculateMacros: the answer of the estimator parsed, or zeros
CalculateMacros(p, llm) ==
  /\ req[p].pc = "llm"
  /\ req[p].op = "calculateMacros"
  /\ LET call == [req[p] EXCEPT !.llm = Some(llm)]
     IN IF llm.kind # "content"
        THEN req' = [req EXCEPT ![p] = MacrosFallback(call, llm.kind)]
        ELSE req' = [req EXCEPT ![p] = Done(call, TRUE, ParsedMacros(llm.analysis))]
  /\ UNCHANGED <<foodVars, goalVars, restVars>>

\* onSuccess / onError of calculateMacrosMutation
MacrosSettled(p) ==
  /\ Answered(p, {"calculateMacros"})
  /\ p \in addFoodModal.pending
  /\ LET data == req[p].resp.value
     IN IF req[p].resp.ok /\ data.calories # 0
        THEN addFoodModal' =
               [addFoodModal EXCEPT !.calories = Some(MathRound(data.calories)),
                                    !.protein = Some(RoundToTenth(data.protein)),
                                    !.carbs = Some(RoundToTenth(data.carbs)),
                                    !.fats = Some(RoundToTenth(data.fats)),
                                    !.isCalculating = FALSE,
                                    !.pending = @ \ {p}]
        ELSE addFoodModal' = [addFoodModal EXCEPT !.isCalculating = FALSE,
                                                 !.pending = @ \ {p}]
  /\ UNCHANGED <<foodVars, goalVars, customVars, envVars, bmiCalculator, once, uiVars, req>>

\* the fields handleSubmit requires
RequiredFields == {"foodName", "calories", "protein", "carbs", "fats"}

\* the body handleSubmit sends, with the meal time and the unit of the
\* selects
FormBody(form) ==
  [foodName |-> form.foodName[1], mealTime |-> form.selectedMealTime,
   calories |-> form.calories[1], protein |-> form.protein[1],
   carbs |-> form.carbs[1], fats |-> form.fats[1],
   quantity |-> form.quantity[1], unit |-> form.unit, source |-> "manual"]

\* part_000 70-90 and 209: the Add Food button, disabled while
\* addFoodMutation.isPending or isCalculating, and handleSubmit behind it,
\* which sends addFood for the date the page shows; p is the call of the
\* mutation
Submit(p, user) ==
  /\ dashboard.showAddFood
  /\ ~addFoodModal.isPending
  /\ ~addFoodModal.isCalculating
  /\ IF \E f \in RequiredFields : addFoodModal[f] = None
     THEN /\ addFoodModal' =
               [addFoodModal EXCEPT
                  !.toast = ToastError("Please fill in all fields")]
          /\ UNCHANGED req
     ELSE /\ Free(p)
          /\ req' = [req EXCEPT ![p] =
                       Sent("addFood", user,
                            WithDate(FormBody(addFoodModal),
                                     dashboard.selectedDate))]
          /\ addFoodModal' = [addFoodModal EXCEPT !.isPending = TRUE,
                                                !.call = Some(p)]
  /\ UNCHANGED <<foodVars, goalVars, customVars, envVars, bmiCalculator, once,
                 uiVars>>

\* part_000 60-68: onSuccess and onError of addFoodMutation for the answer
\* r of its call p: a notification; on success the page closes the modal
\* (Dashboard.tsx 316-319); isPending is that of the modal that made the
\* call
addFoodMutation(modal, p, r) ==
  IF r.resp.ok
  THEN [AddFoodModalInit EXCEPT !.toast = ToastSuccess("Food entry added!")]
  ELSE [modal EXCEPT !.toast = ToastFailure(r, "Failed to add food entry"),
                     !.isPending = IF modal.call = Some(p) THEN FALSE ELSE @,
                     !.call = IF @ = Some(p) THEN None ELSE @]

\* part_000 93 and 206, Dashboard.tsx 315: the modal is closed by 'Cancel',
\* by Escape or by a click outside, none of which is ever disabled: the
\* form is discarded, the timer is cleared, and the requests under way go
\* on
CloseAddFoodModal ==
  /\ dashboard.showAddFood
  /\ dashboard' = [dashboard EXCEPT !.showAddFood = FALSE]
  /\ addFoodModal' = [AddFoodModalInit EXCEPT !.toast = addFoodModal.toast]
  /\ UNCHANGED <<foodVars, goalVars, customVars, envVars, req, bmiCalculator,
                 once, barcodeModal, mediaDevices, goalsModal,
                 imageUploadModal, editFoodModal>>

(* ----------------------------- BarcodeModal ---------------------------- *)

\* what may stand in the field of the manual entry
Barcodes == {"", "590"}

\* BarcodeModal.tsx 237-247: the <video> that carries videoRef is rendered
\* only while isCameraActive, so videoRef.current is an element only then
videoRef_current(modal) == modal.isCameraActive

\* the stream whose tracks stopCamera stops
StoppedTracks(modal) ==
  IF modal.streamRef = None THEN {} ELSE {modal.streamRef[1]}

\* BarcodeModal.tsx 104-117
stopCamera(modal) ==
  IF modal.streamRef = None
  THEN [modal EXCEPT !.detectionIntervalRef = FALSE]
  ELSE [modal EXCEPT !.detectionIntervalRef = FALSE, !.streamRef = None,
                     !.isCameraActive = FALSE]

\* BarcodeModal.tsx 43-51 and 307-317: 'Open Camera to Scan', shown while
\* the camera is not active, up to the await of getUserMedia; the calls of
\* getUserMedia are bounded by MaxEntries
StartCamera ==
  /\ dashboard.showBarcode
  /\ ~barcodeModal.isCameraActive
  /\ ~barcodeModal.isAnalyzing
  /\ (mediaDevices.next - 1) + barcodeModal.startCamera + mediaDevices.closed
       < MaxEntries
  /\ barcodeModal' = [barcodeModal EXCEPT !.startCamera = @ + 1]
  /\ UNCHANGED <<foodVars, goalVars, customVars, envVars, req, addFoodModal,
                 bmiCalculator, once, mediaDevices, dashboard, goalsModal,
            imageUploadModal, editFoodModal>>

\* BarcodeModal.tsx 52-66: access is granted and getUserMedia answers a
\* running stream to a call of startCamera; late tells that the modal of
\* the call has been closed meanwhile, whose videoRef.current is null
GetUserMediaResolved(late) ==
  LET stream == mediaDevices.next
  IN /\ IF late THEN mediaDevices.closed > 0
                ELSE barcodeModal.startCamera > 0
     /\ mediaDevices' =
          [mediaDevices EXCEPT !.live = @ \cup {stream}, !.next = stream + 1,
                               !.closed = IF late THEN @ - 1 ELSE @]
     /\ barcodeModal' =
          IF late THEN barcodeModal
          ELSE IF videoRef_current(barcodeModal)
          THEN [barcodeModal EXCEPT
                  !.srcObject = Some(stream), !.streamRef = Some(stream),
                  !.isCameraActive = TRUE,
                  !.toast = ToastSuccess("Camera opened. Point at a barcode."),
                  !.detectionIntervalRef = TRUE, !.startCamera = @ - 1]
          ELSE [barcodeModal EXCEPT !.startCamera = @ - 1]
     /\ UNCHANGED <<foodVars, goalVars, customVars, envVars, req, addFoodModal,
                    bmiCalculator, once, dashboard, goalsModal,
            imageUploadModal, editFoodModal>>

\* BarcodeModal.tsx 67-70: access is refused to a call of startCamera; the
\* notification is shown also when the modal of the call has been closed
GetUserMediaRejected(late) ==
  /\ IF late THEN mediaDevices.closed > 0 ELSE barcodeModal.startCamera > 0
  /\ mediaDevices' = [mediaDevices EXCEPT !.closed = IF late THEN @ - 1 ELSE @]
  /\ barcodeModal' =
       [barcodeModal EXCEPT
          !.toast =
            ToastError("Could not access camera. Please check permissions."),
          !.startCamera = IF late THEN @ ELSE @ - 1]
  /\ UNCHANGED <<foodVars, goalVars, customVars, envVars, req, addFoodModal,
                 bmiCalculator, once, dashboard, goalsModal,
            imageUploadModal, editFoodModal>>

\* BarcodeModal.tsx 330-340: the field of the manual entry
SetBarcode(text) ==
  /\ dashboard.showBarcode
  /\ ~barcodeModal.isAnalyzing
  /\ barcodeModal' = [barcodeModal EXCEPT !.barcode = text]
  /\ UNCHANGED <<foodVars, goalVars, customVars, envVars, req, addFoodModal,
                 bmiCalculator, once, mediaDevices, dashboard, goalsModal,
            imageUploadModal, editFoodModal>>

\* BarcodeModal.tsx 224: the Meal Time select of the barcode modal, never
\* disabled, which tells a change of its value
SetSelectedMealTimeBarcode(value) ==
  /\ dashboard.showBarcode
  /\ value # barcodeModal.selectedMealTime
  /\ barcodeModal' = [barcodeModal EXCEPT !.selectedMealTime = value]
  /\ UNCHANGED <<foodVars, goalVars, customVars, envVars, req, addFoodModal,
                 bmiCalculator, once, mediaDevices, dashboard, goalsModal,
                 imageUploadModal, editFoodModal>>

\* BarcodeModal.tsx 188-206 and 353-358: 'Analyze Barcode', disabled while
\* the field is empty or isAnalyzing: handleAnalyze sends analyzeBarcode for
\* the date the page shows, and the handler, whose first statement is the
\* call of the estimator, waits for its answer; p is the call of the
\* mutation
HandleAnalyze(p, user) ==
  /\ dashboard.showBarcode
  /\ barcodeModal.barcode # ""
  /\ ~barcodeModal.isAnalyzing
  /\ Free(p)
  /\ barcodeModal' = [barcodeModal EXCEPT !.isAnalyzing = TRUE,
                                        !.call = Some(p)]
  /\ req' = [req EXCEPT ![p] =
               [Call("analyzeBarcode", user,
                     [barcode |-> barcodeModal.barcode,
                      mealTime |-> barcodeModal.selectedMealTime,
                      date |-> dashboard.selectedDate])
                EXCEPT !.pc = "llm"]]
  /\ UNCHANGED <<foodVars, goalVars, customVars, envVars, addFoodModal,
                 bmiCalculator, once, mediaDevices, dashboard, goalsModal,
            imageUploadModal, editFoodModal>>

\* BarcodeModal.tsx 207-212: the modal is closed and its cleanup stops the
\* tracks of streamRef; the calls of getUserMedia that wait go on waiting,
\* the notification stays, and the modal that is opened next is a new one
Unmounted(modal) == [BarcodeModalInit EXCEPT !.toast = modal.toast]

AfterUnmount(devices, modal) ==
  [devices EXCEPT !.live = @ \ StoppedTracks(modal),
                  !.closed = @ + modal.startCamera]

\* BarcodeModal.tsx 32-41: onSuccess and onError of analyzeBarcodeMutation
\* for the answer r of its call p: a notification; on success the page
\* closes the modal (Dashboard.tsx 340-343); setIsAnalyzing(false) acts on
\* the modal that made the call
analyzeBarcodeMutation(modal, p, r) ==
  IF r.resp.ok
  THEN [Unmounted(modal)
          EXCEPT !.toast = ToastSuccess("Food entry added from barcode!")]
  ELSE [modal EXCEPT !.toast = ToastFailure(r, "Failed to analyze barcode"),
                     !.isAnalyzing = IF modal.call = Some(p) THEN FALSE ELSE @,
                     !.call = IF @ = Some(p) THEN None ELSE @]

\* how a modal is closed: its 'Cancel' button, or Escape and a click
\* outside, which call onOpenChange of the Dialog
CloseWays == {"cancel", "dismiss"}

\* BarcodeModal.tsx 207-215 and 344-352, Dashboard.tsx 339: the modal is
\* closed; 'Cancel' is disabled while isAnalyzing, onOpenChange of the
\* Dialog is not, and the request under way goes on
CloseBarcodeModal(by) ==
  /\ dashboard.showBarcode
  /\ by = "cancel" => ~barcodeModal.isAnalyzing
  /\ dashboard' = [dashboard EXCEPT !.showBarcode = FALSE]
  /\ barcodeModal' = Unmounted(barcodeModal)
  /\ mediaDevices' = AfterUnmount(mediaDevices, barcodeModal)
  /\ UNCHANGED <<foodVars, goalVars, customVars, envVars, req, addFoodModal,
                 bmiCalculator, once, goalsModal, imageUploadModal,
                 editFoodModal>>

(* --------------------------- ImageUploadModal -------------------------- *)

\* the files the user may choose: an image, or a file of another type
FileTypes == {"image/jpeg", "text/plain"}

\* file.type.startsWith("image/")
IsImage(type) == type = "image/jpeg"

\* what readAsDataURL yields for the image, as the parts a comma separates:
\* the header and the base64 data
DataUrl == <<"data:image/jpeg;base64", "img">>

\* preview.split(",")[1]
Base64Data(preview) == preview[2]

\* the modal as it is mounted next: its notification and the runs of
\* handleAnalyze under way are not the modal's to lose
Remounted(modal) ==
  [ImageUploadModalInit EXCEPT !.toast = modal.toast,
                               !.handleAnalyze = modal.handleAnalyze]

\* ImageUploadModal.tsx 37-52: a file is chosen: a notification for a file
\* that is no image, else a FileReader starts to read it
HandleFileSelect(type) ==
  /\ dashboard.showImageUpload
  /\ imageUploadModal' =
       IF IsImage(type)
       THEN [imageUploadModal EXCEPT !.reader = TRUE]
       ELSE [imageUploadModal EXCEPT
               !.toast = ToastError("Please select an image file")]
  /\ UNCHANGED <<foodVars, goalVars, customVars, envVars, req, addFoodModal,
                 bmiCalculator, once, barcodeModal, mediaDevices, dashboard,
                 goalsModal, editFoodModal>>

\* ImageUploadModal.tsx 46-50: reader.onload: the image is the preview
ReaderLoaded ==
  /\ imageUploadModal.reader
  /\ imageUploadModal' =
       [imageUploadModal EXCEPT !.reader = FALSE, !.preview = Some(DataUrl)]
  /\ UNCHANGED <<foodVars, goalVars, customVars, envVars, req, addFoodModal,
                 bmiCalculator, once, barcodeModal, mediaDevices, dashboard,
                 goalsModal, editFoodModal>>

\* ImageUploadModal.tsx 91: the Meal Time select of the image modal, never
\* disabled, which tells a change of its value
SetSelectedMealTimeImage(value) ==
  /\ dashboard.showImageUpload
  /\ value # imageUploadModal.selectedMealTime
  /\ imageUploadModal' = [imageUploadModal EXCEPT !.selectedMealTime = value]
  /\ UNCHANGED <<foodVars, goalVars, customVars, envVars, req, addFoodModal,
                 bmiCalculator, once, barcodeModal, mediaDevices, dashboard,
                 goalsModal, editFoodModal>>

\* ImageUploadModal.tsx 54-66 and 134-139: 'Analyze', disabled while
\* there is no preview or isAnalyzing: handleAnalyze up to its first await,
\* which sends uploadImage with the base64 data of the preview; the run p
\* holds the meal time that is selected at the click and the date the page
\* shows for its second call
HandleAnalyzeImage(p, user) ==
  /\ dashboard.showImageUpload
  /\ imageUploadModal.preview # None
  /\ ~imageUploadModal.isAnalyzing
  /\ Free(p)
  /\ imageUploadModal' =
       [imageUploadModal EXCEPT
          !.isAnalyzing = TRUE,
          !.call = Some(p),
          !.handleAnalyze[p] = Some([mealTime |->
                                       imageUploadModal.selectedMealTime,
                                     date |-> dashboard.selectedDate])]
  /\ req' = [req EXCEPT ![p] =
               Sent("uploadImage", user,
                    [imageBase64 |->
                       Base64Data(imageUploadModal.preview[1])])]
  /\ UNCHANGED <<foodVars, goalVars, customVars, envVars, addFoodModal,
                 bmiCalculator, once, barcodeModal, mediaDevices, dashboard,
                 goalsModal, editFoodModal>>

\* ImageUploadModal.tsx 66-78: handleAnalyze goes on with the answer of
\* uploadImage, also when its modal has been closed: it sends analyzeImage
\* with the url, whose handler waits for the estimator; after a failed
\* upload its catch calls setIsAnalyzing(false) and shows nothing
UploadAnswered(p) ==
  /\ Answered(p, {"uploadImage"})
  /\ imageUploadModal.handleAnalyze[p] # None
  /\ IF req[p].resp.ok
     THEN /\ req' = [req EXCEPT ![p] =
                       [Call("analyzeImage", req[p].user,
                             [imageUrl |-> req[p].resp.value.url,
                              mealTime |->
                                imageUploadModal.handleAnalyze[p][1].mealTime,
                              date |->
                                imageUploadModal.handleAnalyze[p][1].date])
                        EXCEPT !.pc = "llm"]]
          /\ imageUploadModal' =
               [imageUploadModal EXCEPT !.handleAnalyze[p] = None]
     ELSE /\ req' = [req EXCEPT ![p] = Idle]
          /\ imageUploadModal' =
               [imageUploadModal EXCEPT
                  !.handleAnalyze[p] = None,
                  !.isAnalyzing = IF imageUploadModal.call = Some(p)
                                  THEN FALSE ELSE @,
                  !.call = IF @ = Some(p) THEN None ELSE @]
  /\ UNCHANGED <<foodVars, goalVars, customVars, envVars, addFoodModal,
                 bmiCalculator, once, barcodeModal, mediaDevices, dashboard,
                 goalsModal, editFoodModal>>

\* ImageUploadModal.tsx 26-35 and 75-78: onSuccess and onError of
\* analyzeImageMutation for the answer r of the run p: a notification; on
\* success the page closes the modal (Dashboard.tsx 328-331);
\* setIsAnalyzing(false) acts on the modal that made the call
analyzeImageMutation(modal, p, r) ==
  IF r.resp.ok
  THEN [Remounted(modal)
          EXCEPT !.toast = ToastSuccess("Food entry added from image!")]
  ELSE [modal EXCEPT !.toast = ToastFailure(r, "Failed to analyze image"),
                     !.isAnalyzing = IF modal.call = Some(p) THEN FALSE ELSE @,
                     !.call = IF @ = Some(p) THEN None ELSE @]

\* ImageUploadModal.tsx 82 and 131, Dashboard.tsx 327: the modal is
\* closed; 'Cancel' is disabled while isAnalyzing, onOpenChange of the
\* Dialog is not, and handleAnalyze goes on
CloseImageUploadModal(by) ==
  /\ dashboard.showImageUpload
  /\ by = "cancel" => ~imageUploadModal.isAnalyzing
  /\ dashboard' = [dashboard EXCEPT !.showImageUpload = FALSE]
  /\ imageUploadModal' = Remounted(imageUploadModal)
  /\ UNCHANGED <<foodVars, goalVars, customVars, envVars, req, addFoodModal,
                 bmiCalculator, once, barcodeModal, mediaDevices, goalsModal,
                 editFoodModal>>

(* ------------------------------ Dashboard ------------------------------ *)

\* Dashboard.tsx 26-29
DEFAULT_CALORIE_GOAL == 2000
DEFAULT_PROTEIN_GOAL == 150
DEFAULT_CARBS_GOAL == 250
DEFAULT_FATS_GOAL == 65

\* the body EditFoodModal.tsx 56-67 sends: every field of the form
EditFoodBodies ==
  { [foodName |-> "oats", calories |-> 120, protein |-> 7, carbs |-> 54,
     fats |-> 5, quantity |-> 1, unit |-> "serving", mealTime |-> "morning"] }

\* what the user may set the sliders of the goals modal to: a goal of 0
\* for the protein
CardGoals ==
  { [dailyCalories |-> 2500, dailyProtein |-> 0, dailyCarbs |-> 200,
     dailyFats |-> 60] }

\* Dashboard.tsx 53-57 and 311-365: the mutations of the page: deleteFood
\* and those of its five modals
DashboardMutations ==
  {"deleteFood", "addFood", "analyzeImage", "analyzeBarcode", "updateGoals",
   "updateFood"}

\* a || b on numbers
OrDefault(x, default) == IF x = 0 THEN default ELSE x

\* Dashboard.tsx 72-78: the numbers of the summary cards
totals(page) ==
  LET summary == IF page.dailySummary = None THEN ZeroTotals
                 ELSE page.dailySummary[1]
  IN [calories |-> OrZero(summary.totalCalories),
      protein |-> OrZero(summary.totalProtein),
      carbs |-> OrZero(summary.totalCarbs),
      fats |-> OrZero(summary.totalFats)]

\* Dashboard.tsx 80-84: the goals the cards show
dailyGoals(page) ==
  IF page.userGoals = None
  THEN [calories |-> DEFAULT_CALORIE_GOAL, protein |-> DEFAULT_PROTEIN_GOAL,
        carbs |-> DEFAULT_CARBS_GOAL, fats |-> DEFAULT_FATS_GOAL]
  ELSE [calories |-> OrDefault(page.userGoals[1].dailyCalories, DEFAULT_CALORIE_GOAL),
        protein |-> OrDefault(page.userGoals[1].dailyProtein, DEFAULT_PROTEIN_GOAL),
        carbs |-> OrDefault(page.userGoals[1].dailyCarbs, DEFAULT_CARBS_GOAL),
        fats |-> OrDefault(page.userGoals[1].dailyFats, DEFAULT_FATS_GOAL)]

\* Dashboard.tsx 155, 167, 179, 191: Math.max(0, goal - Math.round(total));
\* the totals of the model are whole numbers
Remaining(page, macro) ==
  IF dailyGoals(page)[macro] - totals(page)[macro] > 0
  THEN dailyGoals(page)[macro] - totals(page)[macro]
  ELSE 0

\* the key of the query that request p answers
KeyOf(r) ==
  QueryKey(r.op, IF r.op = "getGoals" THEN ModalDate ELSE r.input.date)

\* the request of a fetch of the key is under way and its answer awaited
UnderWay(key) ==
  \E q \in DOMAIN req :
    /\ req[q].pc # "idle"
    /\ req[q].heard
    /\ req[q].op \in DashboardQueries
    /\ KeyOf(req[q]) = key

\* the fetch of the key sends its request as p: one request for a fetch
MayFetch(p, key) ==
  /\ Free(p)
  /\ key \in dashboard.fetching
  /\ ~UnderWay(key)

\* the data of a query are stored under its key: those of the date the page
\* shows are what the page shows, those of another date wait in the cache
QueryData(page, r) ==
  IF r.op = "getGoals"
  THEN [page EXCEPT !.userGoals = Some(r.resp.value)]
  ELSE IF r.op = "getFoodsByDate"
  THEN IF r.input.date = page.selectedDate
       THEN [page EXCEPT !.foodEntries = Some(r.resp.value)]
       ELSE [page EXCEPT !.cache[r.input.date].foodEntries =
                           Some(r.resp.value)]
  ELSE IF r.input.date = page.selectedDate
       THEN [page EXCEPT !.dailySummary = Some(r.resp.value)]
       ELSE [page EXCEPT !.cache[r.input.date].dailySummary =
                           Some(r.resp.value)]

\* drizzle/schema.ts 42-43: a row of userGoals carries createdAt and
\* updatedAt, which arrive as Date objects; the defaults of getGoals are
\* plain numbers
IsRow(value) == "id" \in DOMAIN value

\* GoalsSettingsModal.tsx 18 and 34-41: the effect of the modal runs when
\* currentGoals is a new object: the data of an answer are one unless they
\* equal the data the query had and hold no Date
NewCurrentGoals(page, r) ==
  /\ page.showGoalsSettings
  /\ r.op = "getGoals"
  /\ r.resp.ok
  /\ IsRow(r.resp.value) \/ page.userGoals # Some(r.resp.value)

\* Dashboard.tsx 42-50: the answer of a query reaches the page. A failed
\* query leaves the data it had; retry tells that the cache of the queries
\* fetches it once more, which the QueryClient decides. GoalsSettingsModal
\* 34-41: new goals are put into the sliders of the modal that is open
QueryAnswered(p, retry) ==
  /\ Answered(p, DashboardQueries)
  /\ KeyOf(req[p]) \in dashboard.fetching
  /\ retry => ~req[p].resp.ok
  /\ LET fetched == IF retry THEN dashboard
                    ELSE [dashboard EXCEPT !.fetching = @ \ {KeyOf(req[p])}]
         page == IF req[p].resp.ok THEN QueryData(fetched, req[p]) ELSE fetched
     IN /\ dashboard' = page
        /\ goalsModal' =
             IF NewCurrentGoals(dashboard, req[p])
             THEN [goalsModal EXCEPT !.sliders = CurrentGoals(page)]
             ELSE goalsModal
  /\ req' = [req EXCEPT ![p] = Idle]
  /\ UNCHANGED <<foodVars, goalVars, customVars, envVars, addFoodModal,
                 bmiCalculator, once, barcodeModal, mediaDevices,
                 imageUploadModal, editFoodModal>>

\* the key of the query refetch of Dashboard.tsx 42 fetches
Refetched(page) == QueryKey("getFoodsByDate", page.selectedDate)

\* refetch of Dashboard.tsx 42: the getFoodsByDate query of the date the
\* page shows is fetched again
refetch(page) == [page EXCEPT !.fetching = @ \cup {Refetched(page)}]

\* refetch while its query is being fetched: when the query has data, the
\* fetch under way is dropped, its answer is nobody's and a new request is
\* sent; when it has none, the fetch under way goes on
Refetching(requests, page) ==
  [q \in DOMAIN requests |->
     IF /\ page.foodEntries # None
        /\ requests[q].pc # "idle"
        /\ requests[q].op = "getFoodsByDate"
        /\ KeyOf(requests[q]) = Refetched(page)
     THEN [requests[q] EXCEPT !.heard = FALSE]
     ELSE requests[q]]

\* Dashboard.tsx 311-365: what onSuccess of a mutation does to the page:
\* the modal of the mutation is closed and, but for the goals modal, the
\* entries are fetched again; for deleteFood, Dashboard.tsx 53-57
Succeeded(page, op) ==
  IF op = "addFood" THEN refetch([page EXCEPT !.showAddFood = FALSE])
  ELSE IF op = "analyzeImage"
  THEN refetch([page EXCEPT !.showImageUpload = FALSE])
  ELSE IF op = "analyzeBarcode"
  THEN refetch([page EXCEPT !.showBarcode = FALSE])
  ELSE IF op = "updateFood" THEN refetch([page EXCEPT !.editingFood = None])
  ELSE IF op = "updateGoals" THEN [page EXCEPT !.showGoalsSettings = FALSE]
  ELSE refetch(page)

\* EditFoodModal.tsx 29-37: onSuccess and onError of updateFoodMutation for
\* the answer r of its call p: a notification; on success the page closes
\* the modal (Dashboard.tsx 360-363)
updateFoodMutation(modal, p, r) ==
  IF r.resp.ok
  THEN [EditFoodModalInit
          EXCEPT !.toast = ToastSuccess("Food entry updated successfully!")]
  ELSE [modal EXCEPT !.toast = ToastFailure(r, "Failed to update food entry"),
                     !.call = IF @ = Some(p) THEN None ELSE @]

\* Dashboard.tsx 53-57, 311-365: the answer of a mutation reaches the page
\* and, with it, the callbacks of the modal that sent it, whether that
\* modal is still shown or not
MutationAnswered(p) ==
  /\ Answered(p, DashboardMutations)
  /\ LET r == req[p]
         heard == [dashboard EXCEPT
                     !.deleteFoodMutation = IF @ = Some(p) THEN None ELSE @]
     IN /\ dashboard' = IF r.resp.ok THEN Succeeded(heard, r.op) ELSE heard
        /\ req' = [(IF r.resp.ok /\ r.op # "updateGoals"
                    THEN Refetching(req, dashboard) ELSE req)
                     EXCEPT ![p] = Idle]
        /\ addFoodModal' =
             IF r.op = "addFood" THEN addFoodMutation(addFoodModal, p, r)
             ELSE addFoodModal
        /\ imageUploadModal' =
             IF r.op = "analyzeImage"
             THEN analyzeImageMutation(imageUploadModal, p, r)
             ELSE imageUploadModal
        /\ barcodeModal' =
             IF r.op = "analyzeBarcode"
             THEN analyzeBarcodeMutation(barcodeModal, p, r)
             ELSE barcodeModal
        /\ mediaDevices' =
             IF r.op = "analyzeBarcode" /\ r.resp.ok
             THEN AfterUnmount(mediaDevices, barcodeModal)
             ELSE mediaDevices
        /\ editFoodModal' =
             IF r.op = "updateFood" THEN updateFoodMutation(editFoodModal, p, r)
             ELSE editFoodModal
        /\ goalsModal' =
             IF r.op = "updateGoals" THEN updateGoalsMutation(goalsModal, p, r)
             ELSE goalsModal
        /\ bmiCalculator' =
             IF r.op = "updateGoals" /\ r.resp.ok THEN BMICalculatorInit
             ELSE bmiCalculator
  /\ UNCHANGED <<foodVars, goalVars, customVars, envVars, once>>

\* the answer of addFood reaches AddFoodModal and the page
AddFoodAnswered(p) == req[p].op = "addFood" /\ MutationAnswered(p)

\* the answer of analyzeBarcode reaches BarcodeModal and the page
AnalyzeAnswered(p) == req[p].op = "analyzeBarcode" /\ MutationAnswered(p)

\* the answer of updateGoals reaches GoalsSettingsModal and the page
GoalsAnswered(p) == req[p].op = "updateGoals" /\ MutationAnswered(p)

\* Dashboard.tsx 198-208 and 311-321: the button 'Add Food' shows
\* AddFoodModal
OpenAddFood ==
  /\ NoModal(dashboard)
  /\ dashboard' = [dashboard EXCEPT !.showAddFood = TRUE]
  /\ UNCHANGED <<foodVars, goalVars, customVars, envVars, req, addFoodModal,
                 bmiCalculator, once, barcodeModal, mediaDevices, goalsModal,
                 imageUploadModal, editFoodModal>>

\* Dashboard.tsx 209-217 and 323-333: the button 'Scan Image' shows
\* ImageUploadModal
OpenImageUpload ==
  /\ NoModal(dashboard)
  /\ dashboard' = [dashboard EXCEPT !.showImageUpload = TRUE]
  /\ UNCHANGED <<foodVars, goalVars, customVars, envVars, req, addFoodModal,
                 bmiCalculator, once, barcodeModal, mediaDevices, goalsModal,
                 imageUploadModal, editFoodModal>>

\* Dashboard.tsx 218-226 and 335-345: the button 'Barcode' shows
\* BarcodeModal
OpenBarcode ==
  /\ NoModal(dashboard)
  /\ dashboard' = [dashboard EXCEPT !.showBarcode = TRUE]
  /\ UNCHANGED <<foodVars, goalVars, customVars, envVars, req, addFoodModal,
                 bmiCalculator, once, barcodeModal, mediaDevices, goalsModal,
                 imageUploadModal, editFoodModal>>

\* Dashboard.tsx 227-235 and 347-354, GoalsSettingsModal.tsx 18 and 29-32:
\* the button 'Goals' shows GoalsSettingsModal, whose sliders start from
\* the goals the page holds; its getGoals query is that of the page, which
\* is fetched again as the modal mounts unless it is being fetched
OpenGoalsSettings ==
  /\ NoModal(dashboard)
  /\ dashboard' =
       [dashboard EXCEPT !.showGoalsSettings = TRUE,
                         !.fetching = @ \cup {QueryKey("getGoals", ModalDate)}]
  /\ goalsModal' = [GoalsModalAt(dashboard) EXCEPT !.toast = goalsModal.toast]
  /\ UNCHANGED <<foodVars, goalVars, customVars, envVars, req, addFoodModal,
                 bmiCalculator, once, barcodeModal, mediaDevices,
                 imageUploadModal, editFoodModal>>

\* GoalsSettingsModal.tsx 66, 144 and 171, Dashboard.tsx 350: the modal is
\* closed by either 'Cancel', by Escape or by a click outside, none of
\* which is ever disabled; the calculator goes with it
CloseGoalsModal ==
  /\ dashboard.showGoalsSettings
  /\ dashboard' = [dashboard EXCEPT !.showGoalsSettings = FALSE]
  /\ goalsModal' = [GoalsModalInit EXCEPT !.toast = goalsModal.toast]
  /\ bmiCalculator' = BMICalculatorInit
  /\ UNCHANGED <<foodVars, goalVars, customVars, envVars, req, addFoodModal,
                 once, barcodeModal, mediaDevices, imageUploadModal,
                 editFoodModal>>

\* EditFoodModal.tsx 19-27: the fields of the modal for the entry food; a
\* number field that holds no number is None
EditFoodForm(food) ==
  [foodName |-> food.foodName, calories |-> Some(food.calories),
   protein |-> Some(food.protein), carbs |-> Some(food.carbs),
   fats |-> Some(food.fats), quantity |-> Some(food.quantity),
   unit |-> IF food.unit = "" THEN "serving" ELSE food.unit,
   mealTime |-> food.mealTime]

\* what the user may leave in the fields: the body typed, or the body
\* with the calories cleared
EditFoodForms ==
  {EditFoodForm(body) : body \in EditFoodBodies}
    \cup {[EditFoodForm(body) EXCEPT !.calories = None] :
            body \in EditFoodBodies}

\* Dashboard.tsx 279-285 and 356-365: the pencil of the i-th entry the page
\* lists shows EditFoodModal for it
EditFood(i) ==
  /\ NoModal(dashboard)
  /\ i \in DOMAIN foodEntriesOf(dashboard)
  /\ dashboard' = [dashboard EXCEPT !.editingFood = Some(foodEntriesOf(dashboard)[i])]
  /\ editFoodModal' =
       [editFoodModal EXCEPT !.form = Some(EditFoodForm(foodEntriesOf(dashboard)[i])),
                             !.call = None]
  /\ UNCHANGED <<foodVars, goalVars, customVars, envVars, req, addFoodModal,
                 bmiCalculator, once, barcodeModal, mediaDevices, goalsModal,
                 imageUploadModal>>

\* EditFoodModal.tsx 100-168: the user fills the fields of the modal
SetEditForm(form) ==
  /\ dashboard.editingFood # None
  /\ editFoodModal' = [editFoodModal EXCEPT !.form = Some(form)]
  /\ UNCHANGED <<foodVars, goalVars, customVars, envVars, req, addFoodModal,
                 bmiCalculator, once, barcodeModal, mediaDevices, dashboard,
                 goalsModal, imageUploadModal>>

\* the number fields handleSave parses
NumberFields == {"calories", "protein", "carbs", "fats", "quantity"}

\* EditFoodModal.tsx 39-69 and 175-182: 'Save Changes', disabled while
\* updateFoodMutation.isPending: handleSave shows a notification for a
\* field it refuses, else it sends updateFood with every field of the form
\* for the entry of the modal; the calories typed are whole numbers, which
\* Math.round leaves; p is the call of the mutation
HandleSave(p, user) ==
  /\ dashboard.editingFood # None
  /\ editFoodModal.call = None
  /\ LET form == editFoodModal.form[1]
     IN IF form.foodName = ""
        THEN /\ editFoodModal' =
                  [editFoodModal EXCEPT
                     !.toast = ToastError("Please enter a food name")]
             /\ UNCHANGED req
        ELSE IF \E f \in NumberFields : form[f] = None
        THEN /\ editFoodModal' =
                  [editFoodModal EXCEPT
                     !.toast =
                       ToastError("Please enter valid numbers for all fields")]
             /\ UNCHANGED req
        ELSE /\ Free(p)
             /\ req' = [req EXCEPT ![p] =
                          Sent("updateFood", user,
                               [id |-> dashboard.editingFood[1].id,
                                data |->
                                  [foodName |-> form.foodName,
                                   calories |-> form.calories[1],
                                   protein |-> form.protein[1],
                                   carbs |-> form.carbs[1],
                                   fats |-> form.fats[1],
                                   quantity |-> form.quantity[1],
                                   unit |-> form.unit,
                                   mealTime |-> form.mealTime]])]
             /\ editFoodModal' = [editFoodModal EXCEPT !.call = Some(p)]
  /\ UNCHANGED <<foodVars, goalVars, customVars, envVars, addFoodModal,
                 bmiCalculator, once, barcodeModal, mediaDevices, dashboard,
                 goalsModal, imageUploadModal>>

\* EditFoodModal.tsx 72 and 172, Dashboard.tsx 359: the modal is closed by
\* 'Cancel', by Escape or by a click outside, none of which is ever
\* disabled
CloseEditFoodModal ==
  /\ dashboard.editingFood # None
  /\ dashboard' = [dashboard EXCEPT !.editingFood = None]
  /\ editFoodModal' = [EditFoodModalInit EXCEPT !.toast = editFoodModal.toast]
  /\ UNCHANGED <<foodVars, goalVars, customVars, envVars, req, addFoodModal,
                 bmiCalculator, once, barcodeModal, mediaDevices, goalsModal,
                 imageUploadModal>>

\* Dashboard.tsx 98-102 and 286-293: the bin of the i-th entry the page
\* lists, disabled while deleteFoodMutation.isPending: once the user has
\* confirmed, handleDeleteFood sends deleteFood; p is the call of the
\* mutation
HandleDeleteFood(p, user, i) ==
  /\ NoModal(dashboard)
  /\ dashboard.deleteFoodMutation = None
  /\ i \in DOMAIN foodEntriesOf(dashboard)
  /\ Free(p)
  /\ req' = [req EXCEPT ![p] =
               Sent("deleteFood", user, [id |-> foodEntriesOf(dashboard)[i].id])]
  /\ dashboard' = [dashboard EXCEPT !.deleteFoodMutation = Some(p)]
  /\ UNCHANGED <<foodVars, goalVars, customVars, envVars, addFoodModal,
                 bmiCalculator, once, barcodeModal, mediaDevices, goalsModal,
                 imageUploadModal, editFoodModal>>

\* setSelectedDate(date) for a date that is whole days off the date
\* shown: the keys of the two dated queries hold the Date to the
\* millisecond, and handleDateChange keeps the time of the day, so the
\* dates it reaches from one reading of the clock have the same key
\* exactly when they are the same tick. The page shows what the cache
\* holds of the new date and fetches its two queries; what it showed stays
\* in the cache, the goals stay, and the queries under way go on
Selected(page, date) ==
  [page EXCEPT
     !.selectedDate = date,
     !.foodEntries = page.cache[date].foodEntries,
     !.dailySummary = page.cache[date].dailySummary,
     !.cache = [@ EXCEPT ![page.selectedDate] =
                           [foodEntries |-> page.foodEntries,
                            dailySummary |-> page.dailySummary],
                         ![date] = NoData],
     !.fetching = @ \cup {QueryKey("getFoodsByDate", date),
                          QueryKey("getDailySummary", date)}]

\* setSelectedDate(new Date()): the Date is one the page has not had, to
\* the millisecond, whatever the day, so the keys of the two dated queries
\* are new: they have no data and both are fetched, the goals stay, and
\* what the cache holds of the dates that were reached from the reading
\* before is out of reach
SelectedNow(page, t) ==
  [page EXCEPT
     !.selectedDate = t,
     !.now = t,
     !.foodEntries = None,
     !.dailySummary = None,
     !.cache = [d \in Times |-> NoData],
     !.fetching = {key \in @ : key.op = "getGoals"}
                    \cup {QueryKey("getFoodsByDate", t),
                          QueryKey("getDailySummary", t)}]

\* the fetches of the dated queries that are under way belong to keys the
\* page has left for good: their answers are nobody's
Unobserved(requests) ==
  [q \in DOMAIN requests |->
     IF /\ requests[q].pc # "idle"
        /\ requests[q].op \in {"getFoodsByDate", "getDailySummary"}
     THEN [requests[q] EXCEPT !.heard = FALSE]
     ELSE requests[q]]

\* Dashboard.tsx 92-96, 125 and 131: the buttons of the previous and the
\* next day
HandleDateChange(days) ==
  /\ NoModal(dashboard)
  /\ dashboard.selectedDate + days * TicksPerDay \in Times
  /\ dashboard' =
       Selected(dashboard, dashboard.selectedDate + days * TicksPerDay)
  /\ UNCHANGED <<foodVars, goalVars, customVars, envVars, req, addFoodModal,
                 bmiCalculator, once, barcodeModal, mediaDevices, goalsModal,
                 imageUploadModal, editFoodModal>>

\* Dashboard.tsx 135-142: the button 'Today': setSelectedDate(new Date()),
\* where the clock reads t: the list and the cards are blank until the
\* two queries of the new Date have answered
Today(t) ==
  /\ NoModal(dashboard)
  /\ t >= dashboard.now
  /\ dashboard' = SelectedNow(dashboard, t)
  /\ req' = Unobserved(req)
  /\ UNCHANGED <<foodVars, goalVars, customVars, envVars, addFoodModal,
                 bmiCalculator, once, barcodeModal, mediaDevices, goalsModal,
                 imageUploadModal, editFoodModal>>

\* Dashboard.tsx 42-50: the window gets the focus again, and the queries
\* the page shows are fetched again when the QueryClient says so; a fetch
\* under way goes on
WindowFocused ==
  /\ dashboard' = [dashboard EXCEPT
                     !.fetching = @ \cup ActiveKeys(dashboard.selectedDate)]
  /\ UNCHANGED <<foodVars, goalVars, customVars, envVars, req, addFoodModal,
                 bmiCalculator, once, barcodeModal, mediaDevices, goalsModal,
                 imageUploadModal, editFoodModal>>

\* the field of the cache that holds the data of a dated query
CacheField(op) ==
  IF op = "getFoodsByDate" THEN "foodEntries" ELSE "dailySummary"

\* Dashboard.tsx 42-48: the cache drops the data of one dated query, each
\* of which is an entry of its own, once the page does not show its date,
\* the query is not being fetched and the time the cache keeps it has
\* passed
CacheCollected(op, date) ==
  /\ date # dashboard.selectedDate
  /\ dashboard.cache[date][CacheField(op)] # None
  /\ QueryKey(op, date) \notin dashboard.fetching
  /\ dashboard' = [dashboard EXCEPT !.cache[date][CacheField(op)] = None]
  /\ UNCHANGED <<foodVars, goalVars, customVars, envVars, req, addFoodModal,
                 bmiCalculator, once, barcodeModal, mediaDevices, goalsModal,
                 imageUploadModal, editFoodModal>>

\* the page is loaded anew while the clock reads t: every component starts
\* over, the camera is released, and the answers of the requests that are
\* under way are nobody's
Reload(t) ==
  /\ t >= dashboard.now
  /\ dashboard' = DashboardAt(t)
  /\ goalsModal' = GoalsModalInit
  /\ addFoodModal' = AddFoodModalInit
  /\ bmiCalculator' = BMICalculatorInit
  /\ barcodeModal' = BarcodeModalInit
  /\ imageUploadModal' = ImageUploadModalInit
  /\ editFoodModal' = EditFoodModalInit
  /\ mediaDevices' = [mediaDevices EXCEPT !.live = {}, !.closed = 0]
  /\ req' = [p \in DOMAIN req |->
               IF req[p].pc = "idle" THEN req[p]
               ELSE [req[p] EXCEPT !.heard = FALSE]]
  /\ UNCHANGED <<foodVars, goalVars, customVars, envVars, once>>

(* ------------------------------ the caller ----------------------------- *)

RetriableOps == {"addFood", "updateFood", "deleteFood", "updateGoals"}

\* the caller notes a call that has succeeded, and the tables as it left
\* them, before repeating it
NoteOnce(p) ==
  /\ once = None
  /\ req[p].pc = "done"
  /\ req[p].resp.ok
  /\ req[p].op \in RetriableOps
  /\ once' = Some([op |-> req[p].op, user |-> req[p].user,
                   input |-> req[p].input, foodEntries |-> foodEntries,
                   dailySummary |-> dailySummary, userGoals |-> userGoals])
  /\ UNCHANGED <<foodVars, goalVars, customVars, envVars,
                 addFoodModal, bmiCalculator, uiVars, req>>

\* the caller is through with repeating the call
Forget(p) ==
  /\ once # None
  /\ Ready(p)
  /\ once' = None
  /\ UNCHANGED <<foodVars, goalVars, customVars, envVars,
                 addFoodModal, bmiCalculator, uiVars, req>>

\* a caller that has noted a call sends that call again, with the same input
MaySend(op, user, input) ==
  IF once = None THEN TRUE
  ELSE /\ once[1].op = op
       /\ once[1].user = user
       /\ once[1].input = input

(* --------------------------- specifications ---------------------------- *)

EntryIds == 1..MaxEntries

\* one request at a time: add, edit and delete of entries
NextSeq ==
  \E p \in SeqProcs :
    \/ \E u \in Users, raw \in RawFoods, d \in Times : AddFood(p, u, raw, d)
    \/ RecomputeRead(p)
    \/ UpsertLookup(p)
    \/ UpsertWrite(p)
    \/ \E u \in Users, id \in EntryIds : DeleteFood(p, u, id)
    \/ \E u \in Users, id \in EntryIds, raw \in RawUpdates : UpdateFood(p, u, id, raw)

SpecSeq == Init /\ [][NextSeq]_vars

\* one request at a time: adds of entries and reads of the daily summary
NextRead ==
  \E p \in SeqProcs :
    \/ \E u \in Users, raw \in RawFoods, d \in Times : AddFood(p, u, raw, d)
    \/ RecomputeRead(p)
    \/ UpsertLookup(p)
    \/ UpsertWrite(p)
    \/ \E u \in Users, d \in Times : GetDailySummary(p, u, d)

SpecRead == Init /\ [][NextRead]_vars

\* the adding requests of one user, interleaved at their awaits
NextConc ==
  \E p \in Procs :
    \/ \E u \in ConcUsers, raw \in RawFoods, d \in Times : AddFood(p, u, raw, d)
    \/ \E u \in ConcUsers, d \in Times : AnalyzeImage(p, u, d)
    \/ \E llm \in LlmOutcomes : AnalyzeImageResumed(p, llm)
    \/ \E u \in ConcUsers, d \in Times : AnalyzeBarcode(p, u, d)
    \/ \E llm \in BarcodeOutcomes : AnalyzeBarcodeResumed(p, llm)
    \/ RecomputeRead(p)
    \/ UpsertLookup(p)
    \/ UpsertWrite(p)

SpecConc == Init /\ [][NextConc]_vars

\* one adding request at a time, any database statement of whose recompute
\* may reject
NextFail ==
  \E p \in SeqProcs :
    \/ \E u \in Users, raw \in RawFoods, d \in Times : AddFood(p, u, raw, d)
    \/ \E u \in Users, d \in Times : AnalyzeImage(p, u, d)
    \/ \E llm \in LlmOutcomes : AnalyzeImageResumed(p, llm)
    \/ \E u \in Users, d \in Times : AnalyzeBarcode(p, u, d)
    \/ \E llm \in BarcodeOutcomes : AnalyzeBarcodeResumed(p, llm)
    \/ RecomputeRead(p)
    \/ UpsertLookup(p)
    \/ UpsertWrite(p)
    \/ DbReject(p)

SpecFail == Init /\ [][NextFail]_vars

\* one request at a time: reads and updates of the goals
NextGoals ==
  \E p \in SeqProcs :
    \/ \E u \in Users : GetGoals(p, u)
    \/ \E u \in Users, raw \in RawGoals : UpdateGoals(p, u, raw)
    \/ GoalsWrite(p)

SpecGoals == Init /\ [][NextGoals]_vars

\* bodies of the updateGoals requests a caller repeats
RetryGoals ==
  { [dailyCalories |-> 2500],
    [dailyProtein |-> 180, dailyFats |-> 60] }

\* one request at a time, of one user, whose caller repeats calls that have
\* succeeded
NextRetry ==
  \E p \in SeqProcs :
    \/ \E u \in ConcUsers, raw \in RawFoods, d \in Times :
         /\ MaySend("addFood", u, AddFoodEntrySchema(WithDate(raw, d)))
         /\ AddFood(p, u, raw, d)
    \/ RecomputeRead(p)
    \/ UpsertLookup(p)
    \/ UpsertWrite(p)
    \/ \E u \in ConcUsers, id \in EntryIds :
         /\ MaySend("deleteFood", u, [id |-> id])
         /\ DeleteFood(p, u, id)
    \/ \E u \in ConcUsers, id \in EntryIds, raw \in RawUpdates :
         /\ MaySend("updateFood", u, [id |-> id, data |-> raw])
         /\ UpdateFood(p, u, id, raw)
    \/ \E u \in ConcUsers, raw \in RetryGoals :
         /\ MaySend("updateGoals", u, raw)
         /\ UpdateGoals(p, u, raw)
    \/ GoalsWrite(p)
    \/ NoteOnce(p)
    \/ Forget(p)

SpecRetry == Init /\ [][NextRetry]_vars

\* one request at a time: entries added from the answers of an estimator
\* that may fail
NextLlm ==
  \E p \in SeqProcs :
    \/ OpenImageUpload
    \/ \E value \in MealTimes : SetSelectedMealTimeImage(value)
    \/ \E type \in FileTypes : HandleFileSelect(type)
    \/ ReaderLoaded
    \/ \E by \in CloseWays : CloseImageUploadModal(by)
    \/ \E u \in ConcUsers : HandleAnalyzeImage(p, u)
    \/ \E outcome \in StorageOutcomes : UploadImage(p, outcome)
    \/ UploadAnswered(p)
    \/ \E llm \in LlmOutcomes \cup LlmFailures : AnalyzeImageResumed(p, llm)
    \/ MutationAnswered(p)
    \/ \E u \in ConcUsers, d \in Times : Free(p) /\ AnalyzeBarcode(p, u, d)
    \/ \E llm \in BarcodeOutcomes \cup LlmFailures : AnalyzeBarcodeResumed(p, llm)
    \/ RecomputeRead(p)
    \/ UpsertLookup(p)
    \/ UpsertWrite(p)

SpecLlm == Init /\ [][NextLlm]_vars

\* one request at a time: entries added by hand, edited, and added from the
\* answers of an estimator that may answer anything
NextUntrusted ==
  \E p \in SeqProcs :
    \/ \E u \in ConcUsers, raw \in RawFoods \cup NegativeFoods, d \in Times :
         AddFood(p, u, raw, d)
    \/ \E u \in ConcUsers, d \in Times : AnalyzeImage(p, u, d)
    \/ \E llm \in {[kind |-> "content", analysis |-> a] :
                    a \in Analyses \cup UntrustedAnalyses} :
         AnalyzeImageResumed(p, llm)
    \/ \E u \in ConcUsers, d \in Times : AnalyzeBarcode(p, u, d)
    \/ \E llm \in {[kind |-> "content", analysis |-> a] :
                    a \in BarcodeAnalyses \cup UntrustedBarcodeAnalyses} :
         AnalyzeBarcodeResumed(p, llm)
    \/ RecomputeRead(p)
    \/ UpsertLookup(p)
    \/ UpsertWrite(p)
    \/ \E u \in ConcUsers, id \in EntryIds, raw \in RawUpdates \cup NegativeUpdates :
         UpdateFood(p, u, id, raw)

SpecUntrusted == Init /\ [][NextUntrusted]_vars

\* the add-food form of one user with its estimates while typing
NextMacros ==
  \E p \in SeqProcs :
    \/ OpenAddFood
    \/ CloseAddFoodModal
    \/ \E name \in FoodNames : TypeName(name)
    \/ \E value \in MealTimes : SetSelectedMealTime(value)
    \/ \E value \in Units : SetUnit(value)
    \/ \E raw \in RawFoods : TypeMacros(raw)
    \/ \E u \in ConcUsers :
         ~addFoodModal.isCalculating /\ EstimateSend(p, u)
    \/ \E llm \in MacroOutcomes \cup LlmFailures : CalculateMacros(p, llm)
    \/ MacrosSettled(p)
    \/ \E u \in ConcUsers : Submit(p, u)
    \/ nextEntryId <= MaxPicked /\ AddFoodReceived(p)
    \/ RecomputeRead(p)
    \/ UpsertLookup(p)
    \/ UpsertWrite(p)
    \/ AddFoodAnswered(p)

SpecMacros == Init /\ [][NextMacros]_vars

\* one request at a time of a process that has no database handle
NextDown ==
  \E p \in SeqProcs :
    \/ \E u \in Users, raw \in RawFoods, d \in Times : AddFood(p, u, raw, d)
    \/ \E u \in Users, d \in Times : GetFoodsByDate(p, u, d)
    \/ \E u \in Users, id \in EntryIds : DeleteFood(p, u, id)
    \/ \E u \in Users, id \in EntryIds, raw \in RawUpdates : UpdateFood(p, u, id, raw)
    \/ \E u \in Users, d \in Times : GetDailySummary(p, u, d)
    \/ \E u \in Users, d \in Times : AnalyzeImage(p, u, d)
    \/ \E llm \in LlmOutcomes \cup LlmFailures : AnalyzeImageResumed(p, llm)
    \/ \E u \in Users, d \in Times : AnalyzeBarcode(p, u, d)
    \/ \E llm \in BarcodeOutcomes \cup LlmFailures : AnalyzeBarcodeResumed(p, llm)
    \/ \E u \in Users, raw \in RawCustomFoods : AddCustomFood(p, u, raw)
    \/ \E u \in Users : GetCustomFoods(p, u)
    \/ \E u \in Users : GetGoals(p, u)
    \/ \E u \in Users, raw \in RawGoals : UpdateGoals(p, u, raw)
    \/ \E retry \in BOOLEAN : QueryAnswered(p, retry)

SpecDown == InitDown /\ [][NextDown]_vars

\* the BMI calculator alone
NextBmi ==
  \E p \in SeqProcs, u \in ConcUsers :
    \/ OpenGoalsSettings
    \/ CloseGoalsModal
    \/ \E value \in {"goals", "bmi"} : TabsTrigger(value)
    \/ \E v \in Heights : SetHeight(v)
    \/ \E v \in Weights : SetWeight(v)
    \/ \E v \in Ages : SetAge(v)
    \/ \E v \in Genders : SetGender(v)
    \/ \E v \in ActivityLevels : SetActivityLevel(v)
    \/ \E v \in BmiGoals : SetGoal(v)
    \/ CalculateBMI(p, u)

SpecBmi == Init /\ [][NextBmi]_vars

\* the goals modal of one user: the calculator with the fields of the
\* example, its two buttons and the goals they reach
NextApply ==
  \E p \in SeqProcs, u \in ConcUsers :
    \/ OpenGoalsSettings
    \/ CloseGoalsModal
    \/ \E value \in {"goals", "bmi"} : TabsTrigger(value)
    \/ SetHeight(ExampleFields.height)
    \/ SetWeight(ExampleFields.weight)
    \/ SetAge(ExampleFields.age)
    \/ \E v \in BmiGoals : SetGoal(v)
    \/ CalculateBMI(p, u)
    \/ ApplyBMIGoals(p, u)
    \/ UpdateGoalsReceived(p)
    \/ GoalsWrite(p)
    \/ GoalsAnswered(p)
    \/ Free(p) /\ GetGoals(p, u)

SpecApply == Init /\ [][NextApply]_vars

\* one request at a time: entries of one day added, edited and deleted by
\* their owner and by the other user
NextForeign ==
  \E p \in SeqProcs :
    \/ \E u \in Users, raw \in RawFoods : AddFood(p, u, raw, ModalDate)
    \/ RecomputeRead(p)
    \/ UpsertLookup(p)
    \/ UpsertWrite(p)
    \/ \E u \in Users, id \in EntryIds : DeleteFood(p, u, id)
    \/ \E u \in Users, id \in EntryIds, raw \in RawUpdates : UpdateFood(p, u, id, raw)

SpecForeign == Init /\ [][NextForeign]_vars

\* the bodies the two users of NextOwn send
OwnFoods == {raw \in RawFoods : raw.foodName = "oats"}
OwnCustomFoods == {raw \in RawCustomFoods : raw.foodName = "shake"}
OwnGoals == {raw \in RetryGoals : DOMAIN raw = {"dailyCalories"}}

\* one request at a time of two users: each writes rows of the four tables
\* and reads them back
NextOwn ==
  \E p \in SeqProcs :
    \/ \E u \in Users, raw \in OwnFoods : AddFood(p, u, raw, ModalDate)
    \/ RecomputeRead(p)
    \/ UpsertLookup(p)
    \/ UpsertWrite(p)
    \/ \E u \in Users, raw \in OwnCustomFoods : AddCustomFood(p, u, raw)
    \/ \E u \in Users, raw \in OwnGoals : UpdateGoals(p, u, raw)
    \/ GoalsWrite(p)
    \/ \E u \in Users, d \in Times : GetFoodsByDate(p, u, d)
    \/ \E u \in Users, d \in Times : GetDailySummary(p, u, d)
    \/ \E u \in Users : GetGoals(p, u)
    \/ \E u \in Users : GetCustomFoods(p, u)

SpecOwn == Init /\ [][NextOwn]_vars

\* one request at a time: entries added, some with a Date off the whole
\* tick, and the entries of a day listed
NextList ==
  \E p \in SeqProcs :
    \/ \E u \in ConcUsers, raw \in RawFoods \cup SubSecondFoods, d \in Times :
         AddFood(p, u, raw, d)
    \/ RecomputeRead(p)
    \/ UpsertLookup(p)
    \/ UpsertWrite(p)
    \/ \E u \in ConcUsers, d \in Times : GetFoodsByDate(p, u, d)

SpecList == Init /\ [][NextList]_vars

\* adds, edits and deletes of one user on one day interleaved in two slots,
\* then, once they have all finished and used the ids up to MaxEntries, one
\* more add that runs alone; the summary of the day is read at any time
NextSettle ==
  \E p \in Procs :
    \/ \E u \in ConcUsers, raw \in OwnFoods : AddFood(p, u, raw, ModalDate)
    \/ RecomputeRead(p)
    \/ UpsertLookup(p)
    \/ UpsertWrite(p)
    \/ \E u \in ConcUsers, id \in EntryIds :
         /\ nextEntryId <= MaxEntries + 1
         /\ DeleteFood(p, u, id)
    \/ \E u \in ConcUsers, id \in EntryIds, raw \in RawUpdates :
         /\ nextEntryId <= MaxEntries + 1
         /\ UpdateFood(p, u, id, raw)
    \/ \E u \in ConcUsers, raw \in OwnFoods :
         /\ \A q \in Procs : Ready(q)
         /\ nextEntryId = MaxEntries + 1
         /\ AddFoodUpTo(MaxEntries + 1, p, u, raw, ModalDate)
    \/ \E u \in ConcUsers : GetDailySummary(p, u, ModalDate)

SpecSettle == Init /\ [][NextSettle]_vars

\* updateGoals calls of one user interleaved in two slots at the await
\* between the SELECT and the write of upsertUserGoals
NextGoalsRace ==
  \E p \in Procs :
    \/ \E u \in ConcUsers, raw \in RetryGoals : UpdateGoals(p, u, raw)
    \/ GoalsWrite(p)
    \/ \E u \in ConcUsers : GetGoals(p, u)

SpecGoalsRace == Init /\ [][NextGoalsRace]_vars

\* one request at a time of one user: entries added on any tick and the
\* entries and the summary of a day read for any tick
NextDay ==
  \E p \in SeqProcs :
    \/ \E u \in ConcUsers, raw \in RawFoods \cup SubSecondFoods, d \in Times :
         AddFood(p, u, raw, d)
    \/ RecomputeRead(p)
    \/ UpsertLookup(p)
    \/ UpsertWrite(p)
    \/ \E u \in ConcUsers, d \in Times : GetFoodsByDate(p, u, d)
    \/ \E u \in ConcUsers, d \in Times : GetDailySummary(p, u, d)

SpecDay == Init /\ [][NextDay]_vars

\* the barcode modal of one user on the dashboard: the camera, the manual
\* entry, and analyzeBarcode with the steps of the server behind it
NextBarcode ==
  \/ OpenBarcode
  \/ StartCamera
  \/ \E late \in BOOLEAN : GetUserMediaResolved(late)
  \/ \E late \in BOOLEAN : GetUserMediaRejected(late)
  \/ \E value \in MealTimes : SetSelectedMealTimeBarcode(value)
  \/ \E text \in Barcodes : SetBarcode(text)
  \/ \E by \in CloseWays : CloseBarcodeModal(by)
  \/ \E p \in Procs, u \in ConcUsers :
       \/ HandleAnalyze(p, u)
       \/ \E llm \in BarcodeOutcomes \cup LlmFailures :
            /\ llm.kind = "content" => nextEntryId <= MaxPicked
            /\ AnalyzeBarcodeResumed(p, llm)
       \/ RecomputeRead(p)
       \/ UpsertLookup(p)
       \/ UpsertWrite(p)
       \/ DbReject(p)
       \/ AnalyzeAnswered(p)
       \/ \E key \in dashboard.fetching :
            /\ MayFetch(p, key)
            /\ key.op = "getFoodsByDate"
            /\ GetFoodsByDate(p, u, key.date[1])
       \/ \E retry \in BOOLEAN : QueryAnswered(p, retry)

SpecBarcode == Init /\ [][NextBarcode]_vars

\* the slot of the queries of the page, beside that of its mutations
QueryProcs == Procs \ SeqProcs

\* the answer of updateFood reaches EditFoodModal and the page
UpdateAnswered(p) == req[p].op = "updateFood" /\ MutationAnswered(p)

\* the entries of one user: the page lists them and changes them through
\* EditFoodModal, while another client of the user adds entries and calls
\* updateFood with a part of the fields
NextEdit ==
  \/ \E i \in 1..MaxEntries : EditFood(i)
  \/ \E form \in EditFoodForms : SetEditForm(form)
  \/ CloseEditFoodModal
  \/ \E p \in SeqProcs, u \in ConcUsers :
       \/ \E key \in dashboard.fetching :
            /\ MayFetch(p, key)
            /\ key.op = "getFoodsByDate"
            /\ GetFoodsByDate(p, u, key.date[1])
       \/ \E retry \in BOOLEAN : QueryAnswered(p, retry)
       \/ HandleSave(p, u)
       \/ UpdateFoodReceived(p)
       \/ UpdateAnswered(p)
  \/ \E p \in Procs \ SeqProcs, u \in ConcUsers :
       \/ \E raw \in RawFoods : AddFood(p, u, raw, ModalDate)
       \/ RecomputeRead(p)
       \/ UpsertLookup(p)
       \/ UpsertWrite(p)
       \/ \E id \in EntryIds, raw \in RawUpdates : UpdateFood(p, u, id, raw)

SpecEdit == Init /\ [][NextEdit]_vars

\* the dashboard of one user on the day it is loaded on: its queries, and
\* the entries it adds through AddFoodModal and deletes

NextDashboard ==
  \/ Reload(dashboard.now)
  \/ WindowFocused
  \/ OpenAddFood
  \/ CloseAddFoodModal
  \/ \E raw \in OwnFoods : TypeName(raw.foodName)
  \/ \E value \in MealTimes : SetSelectedMealTime(value)
  \/ \E value \in Units : SetUnit(value)
  \/ \E raw \in OwnFoods : TypeMacros(raw)
  \/ \E p \in QueryProcs, u \in ConcUsers :
       \/ \E key \in dashboard.fetching :
            /\ MayFetch(p, key)
            /\ key.op = "getFoodsByDate"
            /\ GetFoodsByDate(p, u, key.date[1])
       \/ \E key \in dashboard.fetching :
            /\ MayFetch(p, key)
            /\ key.op = "getDailySummary"
            /\ GetDailySummary(p, u, key.date[1])
       \/ \E key \in dashboard.fetching :
            /\ MayFetch(p, key)
            /\ key.op = "getGoals"
            /\ GetGoals(p, u)
       \/ \E retry \in BOOLEAN : QueryAnswered(p, retry)
  \/ \E p \in SeqProcs, u \in ConcUsers :
       \/ Submit(p, u)
       \/ nextEntryId <= MaxPicked /\ AddFoodReceived(p)
       \/ RecomputeRead(p)
       \/ UpsertLookup(p)
       \/ UpsertWrite(p)
       \/ \E i \in 1..MaxEntries : HandleDeleteFood(p, u, i)
       \/ DeleteFoodReceived(p)
       \/ MutationAnswered(p)

SpecDashboard == Init /\ [][NextDashboard]_vars

\* the dashboard of one user and the days it shows: its queries and the
\* goals saved from its goals modal, one request at a time
NextCalendar ==
  \/ \E t \in Times : Reload(t)
  \/ \E days \in {-1, 1} : HandleDateChange(days)
  \/ \E t \in Times : Today(t)
  \/ \E op \in {"getFoodsByDate", "getDailySummary"}, date \in Times :
       CacheCollected(op, date)
  \/ OpenGoalsSettings
  \/ CloseGoalsModal
  \/ \E value \in {"goals", "bmi"} : TabsTrigger(value)
  \/ \E p \in SeqProcs, u \in ConcUsers :
       \/ \E key \in dashboard.fetching :
            /\ MayFetch(p, key)
            /\ key.op = "getFoodsByDate"
            /\ GetFoodsByDate(p, u, key.date[1])
       \/ \E key \in dashboard.fetching :
            /\ MayFetch(p, key)
            /\ key.op = "getDailySummary"
            /\ GetDailySummary(p, u, key.date[1])
       \/ \E key \in dashboard.fetching :
            /\ MayFetch(p, key)
            /\ key.op = "getGoals"
            /\ GetGoals(p, u)
       \/ \E retry \in BOOLEAN : QueryAnswered(p, retry)
       \/ \E goals \in CardGoals : SetSliders(goals)
       \/ HandleSaveGoals(p, u)
       \/ UpdateGoalsReceived(p)
       \/ GoalsWrite(p)
       \/ MutationAnswered(p)

SpecCalendar == Init /\ [][NextCalendar]_vars

\* what is typed into the calculator: a body whose calculated goals
\* updateGoals accepts, and one for which the calculated calories are under
\* the range it accepts

\* the goals modal of one user: the calculator, its buttons, the calls of
\* updateGoals behind 'Apply as Daily Goal' and 'Save Goals', up to two at
\* a time, and their answers
NextToast ==
  \E p \in Procs, u \in ConcUsers :
    \/ OpenGoalsSettings
    \/ CloseGoalsModal
    \/ \E value \in {"goals", "bmi"} : TabsTrigger(value)
    \/ \E v \in ToastHeights : SetHeight(v)
    \/ \E v \in ToastWeights : SetWeight(v)
    \/ SetAge(ExampleFields.age)
    \/ CalculateBMI(p, u)
    \/ ApplyBMIGoals(p, u)
    \/ HandleSaveGoals(p, u)
    \/ UpdateGoalsReceived(p)
    \/ GoalsWrite(p)
    \/ GoalsAnswered(p)

SpecToast == Init /\ [][NextToast]_vars

\* what the estimator answers in NextDebounce: two estimates that differ
DebounceAnswers ==
  MacroAnswers \cup
    { [caloriesTenths |-> 1550, protein |-> 13, carbs |-> 1, fats |-> 11] }

DebounceOutcomes == {[kind |-> "content", analysis |-> a] : a \in DebounceAnswers}

\* the add-food form of one user: the name and the quantity typed, the
\* timer of the effect, and up to two estimates outstanding at a time that
\* answer in either order
NextDebounce ==
  \E p \in Procs, u \in ConcUsers :
    \/ OpenAddFood
    \/ CloseAddFoodModal
    \/ \E name \in FoodNames : TypeName(name)
    \/ \E v \in Quantities : TypeQuantity(v)
    \/ \E value \in Units : SetUnit(value)
    \/ EstimateSend(p, u)
    \/ \E llm \in DebounceOutcomes : CalculateMacros(p, llm)
    \/ MacrosSettled(p)

SpecDebounce == Init /\ [][NextDebounce]_vars

Spec == SpecSeq

(* ------------------------------ properties ----------------------------- *)

\* the calendar day of a tick
DayOf(t) == t \div TicksPerDay

RECURSIVE SumOf(_, _)
SumOf(rows, field) ==
  IF rows = {} THEN 0
  ELSE LET r == CHOOSE x \in rows : TRUE
       IN r[field] + SumOf(rows \ {r}, field)

EntriesOfDay(userId, day) ==
  {e \in foodEntries : e.userId = userId /\ DayOf(e.date) = day}

TotalsAre(row, entries) ==
  /\ row.totalCalories = SumOf(entries, "calories")
  /\ row.totalProtein = SumOf(entries, "protein")
  /\ row.totalCarbs = SumOf(entries, "carbs")
  /\ row.totalFats = SumOf(entries, "fats")

Quiet(procs) == \A p \in procs : Ready(p)

\* C1: whenever a call of a sequence of addFood, updateFood and deleteFood
\* calls has completed, every stored DailySummary row holds the sums over
\* the current entries of its user and day.
SummaryEqualsEntriesAfterEachCall ==
  Quiet(SeqProcs) =>
    \A r \in dailySummary :
      TotalsAre(r, EntriesOfDay(r.userId, DayOf(r.date)))

\* C2, as claimed: once all interleaved adding calls of one user have
\* completed, the stored totals of every day that has a summary, in
\* whichever of its rows, are the sums over the current entries of the day.
SummaryEqualsEntriesAfterInterleaving ==
  Quiet(Procs) =>
    \A r \in dailySummary :
      \E s \in dailySummary :
        /\ s.userId = r.userId
        /\ s.date = r.date
        /\ TotalsAre(s, EntriesOfDay(s.userId, DayOf(s.date)))

\* C2, amended: once all interleaved adding calls of one user have completed,
\* every stored DailySummary row holds the sums over the entries its day had
\* when one of the calls read them: a non-empty prefix, in insertion order, of
\* the day's entries, which may leave out entries inserted later.
SummaryIsSumOfEntriesRead ==
  Quiet(Procs) =>
    \A r \in dailySummary :
      \E k \in EntryIds :
        LET read == {e \in EntriesOfDay(r.userId, DayOf(r.date)) : e.id <= k}
        IN read # {} /\ TotalsAre(r, read)

\* C2 witness: all calls have completed and the only summary row of a day
\* is stale
StaleSummaryAfterInterleaving ==
  /\ Quiet(Procs)
  /\ \E r \in dailySummary :
       /\ \A s \in dailySummary :
            (s.userId = r.userId /\ s.date = r.date) => s.id = r.id
       /\ ~TotalsAre(r, EntriesOfDay(r.userId, DayOf(r.date)))

\* C3: there is at most one DailySummary row per user and calendar day, also
\* while and after two adding calls interleave their read-then-insert.
OneSummaryRowPerUserAndDay ==
  \A r1 \in dailySummary, r2 \in dailySummary :
    (r1.userId = r2.userId /\ r1.date = r2.date) => r1.id = r2.id

\* C4: a deleteFood or updateFood naming an entry that belongs to another
\* user changes no food entry and no daily summary.
ForeignMutationIsNoOp ==
  [][\A p \in SeqProcs :
       (/\ req'[p].op \in {"deleteFood", "updateFood"}
        /\ \E e \in foodEntries :
             e.id = req'[p].input.id /\ e.userId # req'[p].user)
       => (foodEntries' = foodEntries /\ dailySummary' = dailySummary)]_vars

\* C4 witness: such a call has completed against an entry whose owner has a
\* summary row
ForeignMutationDone ==
  \E p \in SeqProcs :
    /\ req[p].pc = "done"
    /\ req[p].op \in {"deleteFood", "updateFood"}
    /\ \E e \in foodEntries :
         /\ e.id = req[p].input.id
         /\ e.userId # req[p].user
         /\ \E r \in dailySummary : r.userId = e.userId

\* C5: getGoals of a user without a UserGoals row answers exactly 2000, 150,
\* 250, 65 and leaves the table as it was.
GetGoalsAnswersDefaults ==
  [][\A p \in SeqProcs :
       (/\ req'[p].pc = "done"
        /\ req'[p].op = "getGoals"
        /\ \A g \in userGoals : g.userId # req'[p].user)
       => (/\ req'[p].resp.ok
           /\ DOMAIN req'[p].resp.value =
                {"dailyCalories", "dailyProtein", "dailyCarbs", "dailyFats"}
           /\ req'[p].resp.value.dailyCalories = 2000
           /\ req'[p].resp.value.dailyProtein = 150
           /\ req'[p].resp.value.dailyCarbs = 250
           /\ req'[p].resp.value.dailyFats = 65
           /\ userGoals' = userGoals)]_vars

\* C5 witness: a user without a row has read the goals while another user
\* has a row
GetGoalsWithoutRowDone ==
  \E p \in SeqProcs :
    /\ req[p].pc = "done"
    /\ req[p].op = "getGoals"
    /\ userGoals # {}
    /\ \A g \in userGoals : g.userId # req[p].user

\* the bounds the goals must keep, as the specification states them
StatedBounds ==
  { [path |-> "dailyCalories", min |-> 500, max |-> 10000],
    [path |-> "dailyProtein", min |-> 0, max |-> 500],
    [path |-> "dailyFats", min |-> 0, max |-> 500],
    [path |-> "dailyCarbs", min |-> 0, max |-> 1000] }

\* the stated bounds a body violates, each with the limit crossed
ViolatedBounds(raw) ==
  {[path |-> b.path, bound |-> b.min] :
     b \in {x \in StatedBounds : x.path \in DOMAIN raw /\ raw[x.path] < x.min}}
  \cup
  {[path |-> b.path, bound |-> b.max] :
     b \in {x \in StatedBounds : x.path \in DOMAIN raw /\ raw[x.path] > x.max}}

\* C6: an updateGoals call with a goal outside its range is rejected at once,
\* the stored goals stay as they were, and the error names every violated
\* bound.
UpdateGoalsRejectsOutOfRange ==
  [][\A p \in SeqProcs :
       (/\ req'[p].op = "updateGoals"
        /\ ViolatedBounds(req'[p].input) # {})
       => (/\ req'[p].pc = "done"
           /\ ~req'[p].resp.ok
           /\ userGoals' = userGoals
           /\ \A v \in ViolatedBounds(req'[p].input) :
                \E i \in req'[p].resp.value :
                  i.path = v.path /\ i.bound = v.bound)]_vars

\* C6 witness: a call has been rejected for a user who has stored goals
UpdateGoalsRejected ==
  \E p \in SeqProcs :
    /\ req[p].pc = "done"
    /\ req[p].op = "updateGoals"
    /\ ~req[p].resp.ok
    /\ ViolatedBounds(req[p].input) # {}
    /\ \E g \in userGoals : g.userId = req[p].user

\* a value as its column holds it
Stored(field, value) ==
  IF field \in NullableGoalColumns THEN Some(value) ELSE value

\* C7: a getGoals answers, for every field the user's last successful
\* updateGoals supplied, the value supplied.
GetGoalsReflectsUpdate ==
  \A p \in SeqProcs :
    (/\ req[p].pc = "done"
     /\ req[p].op = "getGoals"
     /\ lastGoals[req[p].user] # None)
    => LET data == lastGoals[req[p].user][1]
       IN /\ req[p].resp.ok
          /\ \A f \in DOMAIN data :
               req[p].resp.value[f] = Stored(f, data[f])

\* C7 witness: getGoals has answered a calorie goal of 2500 set by the user
GetGoalsAfterUpdateDone ==
  \E p \in SeqProcs :
    /\ req[p].pc = "done"
    /\ req[p].op = "getGoals"
    /\ lastGoals[req[p].user] # None
    /\ "dailyCalories" \in DOMAIN lastGoals[req[p].user][1]
    /\ req[p].resp.value.dailyCalories = 2500

\* the user's row after the step holds the supplied fields at the supplied
\* values and every other field at the value stored before; rows of other
\* users stay as they were
MergedInto(user, data) ==
  LET old == {g \in userGoals : g.userId = user}
      new == {g \in userGoals' : g.userId = user}
  IN /\ Cardinality(new) = 1
     /\ \A g \in userGoals : g.userId # user => g \in userGoals'
     /\ \A n \in new :
          /\ \A f \in DOMAIN data : n[f] = Stored(f, data[f])
          /\ \A o \in old :
               \A f \in DOMAIN o \ DOMAIN data : n[f] = o[f]

\* C8: an updateGoals call that has passed the input schema, whatever
\* subset of the fields it supplies, succeeds and leaves the user with
\* exactly one row: the first call creates it, every later call changes
\* only the supplied fields and leaves each other field at its stored value
UpdateGoalsMerges ==
  [][\A p \in SeqProcs :
       (req[p].pc = "goalsWrite" /\ req'[p].pc = "done")
       => (req'[p].resp.ok /\ MergedInto(req[p].user, req[p].input))]_vars

\* the part of C8 that holds: an updateGoals call that succeeds has merged
SuccessfulUpdateGoalsMerges ==
  [][\A p \in SeqProcs :
       (/\ req[p].pc = "goalsWrite"
        /\ req'[p].pc = "done"
        /\ req'[p].resp.ok)
       => MergedInto(req[p].user, req[p].input)]_vars

\* an update with fields has merged into a row that keeps a goal set by an
\* earlier call
UpdateGoalsMerged ==
  \E p \in SeqProcs :
    /\ req[p].pc = "done"
    /\ req[p].op = "updateGoals"
    /\ req[p].resp.ok
    /\ req[p].resp.value = "updated"
    /\ \E g \in userGoals :
         /\ g.userId = req[p].user
         /\ \E f \in DOMAIN DefaultGoals \ DOMAIN req[p].input :
              g[f] # DefaultGoals[f]

\* an update without a field has been refused although the user has a row
EmptyUpdateRefused ==
  \E p \in SeqProcs :
    /\ req[p].pc = "done"
    /\ req[p].op = "updateGoals"
    /\ DOMAIN req[p].input = {}
    /\ ~req[p].resp.ok
    /\ req[p].resp.value = NoValuesToSet

SummaryFields == {"totalCalories", "totalProtein", "totalCarbs", "totalFats"}

\* the summary rows of a user and calendar day
RowsOfDay(userId, day) ==
  {r \in dailySummary : r.userId = userId /\ r.date = day * TicksPerDay}

\* C9: getDailySummary answers four zero totals when the user has no summary
\* row of the day, and a stored row of that user and day otherwise.
GetDailySummaryNeverNull ==
  \A p \in SeqProcs :
    (req[p].pc = "done" /\ req[p].op = "getDailySummary")
    => LET rows == RowsOfDay(req[p].user, DayOf(req[p].input.date))
           value == req[p].resp.value
       IN /\ req[p].resp.ok
          /\ SummaryFields \subseteq DOMAIN value
          /\ IF rows = {}
             THEN \A f \in SummaryFields : value[f] = 0
             ELSE \E r \in rows :
                    DOMAIN value = DOMAIN r /\ \A f \in DOMAIN r : value[f] = r[f]

\* C9 witness: a day without a row has been read while other rows exist
GetDailySummaryWithoutRowDone ==
  \E p \in SeqProcs :
    /\ req[p].pc = "done"
    /\ req[p].op = "getDailySummary"
    /\ dailySummary # {}
    /\ RowsOfDay(req[p].user, DayOf(req[p].input.date)) = {}

\* C10: when an adding call has failed, no entry it inserted is stored.
FailedCallLeavesNoEntry ==
  \A p \in SeqProcs :
    (req[p].pc = "done" /\ ~req[p].resp.ok)
    => \A e \in foodEntries : e.id \notin req[p].inserted

\* C11: when a caller repeats an addFood, updateFood, deleteFood or
\* updateGoals call that has succeeded, with the same input, and the repeat
\* has succeeded, the food entries, the daily summaries and the goals are as
\* the first call left them.
RepeatedCallLeavesStateAsOnce ==
  \A p \in SeqProcs :
    (/\ once # None
     /\ req[p].pc = "done"
     /\ req[p].resp.ok)
    => /\ foodEntries = once[1].foodEntries
       /\ dailySummary = once[1].dailySummary
       /\ userGoals = once[1].userGoals

FailureKinds == {"rejected", "noContent", "unparsable"}

AnalyzeOps == {"analyzeImage", "analyzeBarcode"}

\* C12: an analyzeImage or analyzeBarcode call whose estimator fails, answers
\* no content or answers content that does not parse ends with an error,
\* inserts no food entry and changes no daily summary.
EstimatorFailureSurfacesError ==
  [][\A p \in SeqProcs :
       (/\ req[p].pc = "llm"
        /\ req[p].op \in AnalyzeOps
        /\ req'[p].llm # None
        /\ req'[p].llm[1].kind \in FailureKinds)
       => (/\ req'[p].pc = "done"
           /\ ~req'[p].resp.ok
           /\ foodEntries' = foodEntries
           /\ nextEntryId' = nextEntryId
           /\ dailySummary' = dailySummary)]_vars

\* C12 witness: a call has ended on a failed estimator while entries and a
\* summary are stored
EstimatorFailureDone ==
  \E p \in SeqProcs :
    /\ req[p].pc = "done"
    /\ req[p].op \in AnalyzeOps
    /\ req[p].llm # None
    /\ req[p].llm[1].kind \in FailureKinds
    /\ foodEntries # {}
    /\ dailySummary # {}

MacroFields == {"calories", "protein", "carbs", "fats"}

\* C13: a calculateMacros call whose estimator fails does not fail: it
\* answers four zeros and writes nothing; and when the add-food form, which
\* stays open, receives a zero result, the macro fields keep what was typed
\* and the Add Food button is no longer held back by the estimate.
MacroEstimateDegradesToZero ==
  [][\A p \in SeqProcs :
       /\ (/\ req[p].pc = "llm"
           /\ req[p].op = "calculateMacros"
           /\ req'[p].pc = "done"
           /\ req'[p].llm[1].kind \in FailureKinds)
          => (/\ req'[p].resp.ok
              /\ DOMAIN req'[p].resp.value = MacroFields
              /\ \A f \in MacroFields : req'[p].resp.value[f] = 0
              /\ foodEntries' = foodEntries
              /\ dailySummary' = dailySummary
              /\ userGoals' = userGoals
              /\ customFoods' = customFoods)
       /\ (/\ Answered(p, {"calculateMacros"})
           /\ req[p].resp.ok
           /\ req[p].resp.value.calories = 0
           /\ p \in addFoodModal.pending
           /\ p \notin addFoodModal'.pending
           /\ dashboard'.showAddFood)
          => (/\ \A f \in MacroFields : addFoodModal'[f] = addFoodModal[f]
              /\ addFoodModal'.foodName = addFoodModal.foodName
              /\ ~addFoodModal'.isCalculating)]_vars

\* C13 witness: the estimate of a typed name has failed, the form has
\* received its zero result, the macros are as typed and the button is free
FailedEstimateSettled ==
  \E p \in SeqProcs :
    /\ req[p].op = "calculateMacros"
    /\ req[p].pc = "done"
    /\ req[p].llm[1].kind \in FailureKinds
    /\ req[p].resp.ok
    /\ p \notin addFoodModal.pending
    /\ dashboard.showAddFood
    /\ addFoodModal.calories = Some(300)
    /\ ~addFoodModal.isCalculating
    /\ ~addFoodModal.isPending

\* the operations on entries, daily summaries, custom foods and goals
StoreOps ==
  {"addFood", "getFoodsByDate", "deleteFood", "updateFood", "getDailySummary",
   "analyzeImage", "analyzeBarcode", "addCustomFood", "getCustomFoods",
   "getGoals", "updateGoals"}

\* C14: in a process without a database handle every operation on entries,
\* daily summaries, custom foods and goals that has returned has failed with
\* an error, none is left waiting on the database (an analysis waits for
\* the estimator only), and no table has changed.
FailsClosedWithoutDatabase ==
  DATABASE_URL = None =>
    /\ \A p \in SeqProcs :
         /\ req[p].pc \in {"idle", "done", "llm"}
         /\ req[p].pc = "llm" => req[p].op \in AnalyzeOps
         /\ (req[p].pc = "done" /\ req[p].op \in StoreOps) => ~req[p].resp.ok
    /\ foodEntries = {}
    /\ dailySummary = {}
    /\ customFoods = {}
    /\ userGoals = {}

\* C14 witness: getGoals has returned in a process without a handle
GetGoalsWithoutDatabaseDone ==
  /\ DATABASE_URL = None
  /\ \E p \in SeqProcs : req[p].pc = "done" /\ req[p].op = "getGoals"

\* what a calculation reads
BmiInputs(form) ==
  <<form.height, form.weight, form.age, form.gender, form.activityLevel,
    form.goal>>

ExampleTyped(form) ==
  /\ form.height = Some(175) /\ form.weight = Some(75) /\ form.age = Some(28)
  /\ form.gender = "male" /\ form.activityLevel = "moderate"
  /\ form.goal = "maintain"

\* a press of Calculate on the fields of the example that changes what the
\* calculator shows
ExampleCalculation ==
  /\ ExampleTyped(bmiCalculator)
  /\ BmiInputs(bmiCalculator') = BmiInputs(bmiCalculator)
  /\ bmiCalculator' # bmiCalculator

\* C15 as stated: for 175 cm, 75 kg, 28 years, male, moderate, maintain the
\* calculation has BMR 1768.75 (7075 quarters), shows 2742 kcal and suggests
\* protein 206 g, carbs 309 g, fats 76 g
BmiExampleAsStated ==
  [][ExampleCalculation =>
       /\ bmr(75, 175, 28, "male") = 7075
       /\ bmiCalculator'.tdee = Some(2742)
       /\ bmiCalculator'.suggestedMacros =
            Some([protein |-> 206, carbs |-> 309, fats |-> 76])]_vars

\* C15 amended: for 175 cm, 75 kg, 28 years, male, moderate, maintain the
\* calculation has BMR 1708.75 (6835 quarters), shows 2649 kcal (2648.5625
\* rounded) and suggests protein 199 g, carbs 298 g, fats 74 g
BmiExampleAsComputed ==
  [][ExampleCalculation =>
       /\ bmr(75, 175, 28, "male") = 6835
       /\ bmiCalculator'.tdee = Some(2649)
       /\ bmiCalculator'.suggestedMacros =
            Some([protein |-> 199, carbs |-> 298, fats |-> 74])]_vars

BmiExampleCalculated ==
  /\ ExampleTyped(bmiCalculator)
  /\ bmiCalculator.bmi = Some(245)
  /\ bmiCalculator.tdee = Some(2649)
  /\ bmiCalculator.suggestedMacros =
       Some([protein |-> 199, carbs |-> 298, fats |-> 74])

\* the values the calculator shows, as the Apply button sends them
ShownGoals(form) ==
  [dailyCalories |-> form.tdee[1],
   dailyProtein |-> form.suggestedMacros[1].protein,
   dailyCarbs |-> form.suggestedMacros[1].carbs,
   dailyFats |-> form.suggestedMacros[1].fats]

Calculated(form) ==
  form.bmi # None /\ form.tdee # None /\ form.suggestedMacros # None

\* the step sends updateGoals from slot p
SendsUpdateGoals(p) ==
  /\ req[p].pc # "sent"
  /\ req'[p].pc = "sent"
  /\ req'[p].op = "updateGoals"

\* C16: a step that changes the calculator (typing, Calculate, the showing
\* of the other tab, the closing of the modal) sends no updateGoals and
\* changes no stored goal; a step that
\* sends updateGoals leaves the calculator as it is, finds a calculation
\* shown and sends its values
BmiGoalsSentOnlyOnApply ==
  [][/\ bmiCalculator' # bmiCalculator =>
          /\ \A p \in SeqProcs : ~SendsUpdateGoals(p)
          /\ UNCHANGED <<userGoals, nextGoalsId, lastGoals>>
     /\ \A p \in SeqProcs :
          SendsUpdateGoals(p) =>
            /\ bmiCalculator' = bmiCalculator
            /\ IF Calculated(bmiCalculator)
               THEN req'[p].input = ShownGoals(bmiCalculator)
               ELSE FALSE]_vars

\* C16 witness: the goals of the example, calculated and applied, are stored
CalculatedGoalsApplied ==
  /\ Calculated(bmiCalculator)
  /\ \E p \in SeqProcs, g \in userGoals :
       /\ req[p].pc = "done" /\ req[p].op = "updateGoals" /\ req[p].resp.ok
       /\ g.userId = req[p].user
       /\ g.dailyCalories = 2649 /\ g.dailyProtein = 199
       /\ g.dailyCarbs = 298 /\ g.dailyFats = 74

\* C17: every stored food entry has calories, protein, carbs and fats that
\* are not negative, whatever the callers sent and the estimator answered
StoredEntriesNonNegative ==
  \A e \in foodEntries :
    e.calories >= 0 /\ e.protein >= 0 /\ e.carbs >= 0 /\ e.fats >= 0

\* the completed call r went to an id no row ever had
OnMissingId(r) ==
  /\ r.pc = "done"
  /\ r.op \in {"deleteFood", "updateFood"}
  /\ r.input.id >= nextEntryId

\* the call r goes to a stored row of another user
OnForeignId(r) ==
  /\ r.op \in {"deleteFood", "updateFood"}
  /\ \E e \in foodEntries : e.id = r.input.id /\ e.userId # r.user

\* r and q are the same call but for the id
SameButId(r, q) ==
  /\ r.op = q.op
  /\ r.user = q.user
  /\ IF r.op = "updateFood" THEN r.input.data = q.input.data ELSE TRUE

\* C19: deleteFood and updateFood on an id owned by another user answer
\* what the same call answered on an id that does not exist
ForeignMutationAnswersAsMissing ==
  [][\A p \in SeqProcs :
       (/\ OnMissingId(req[p])
        /\ req'[p].pc = "done"
        /\ OnForeignId(req'[p])
        /\ SameButId(req[p], req'[p]))
       => req'[p].resp = req[p].resp]_vars

ForeignMutationAnswered ==
  \E p \in SeqProcs :
    /\ req[p].pc = "done"
    /\ OnForeignId(req[p])
    /\ req[p].resp = [ok |-> TRUE, value |-> "success"]
    /\ nextEntryId <= MaxEntries

ReadOps == {"getFoodsByDate", "getDailySummary", "getGoals", "getCustomFoods"}

\* the table a read selects from
TableOf(op) ==
  IF op = "getFoodsByDate" THEN foodEntries
  ELSE IF op = "getDailySummary" THEN dailySummary
  ELSE IF op = "getGoals" THEN userGoals
  ELSE customFoods

\* the stored rows in the answer of the completed read r (the defaults of
\* getDailySummary and getGoals are no rows)
RowsRead(r) ==
  IF r.op = "getFoodsByDate"
  THEN {r.resp.value[i] : i \in DOMAIN r.resp.value}
  ELSE IF r.op = "getCustomFoods" THEN r.resp.value
  ELSE IF "id" \in DOMAIN r.resp.value THEN {r.resp.value} ELSE {}

\* the rows of the user the read r asks for
RowsAsked(r) ==
  IF r.op = "getFoodsByDate"
  THEN {e \in foodEntries : /\ e.userId = r.user
                            /\ DayOf(e.date) = DayOf(r.input.date)}
  ELSE IF r.op = "getDailySummary"
  THEN {s \in dailySummary : /\ s.userId = r.user
                             /\ s.date = startOfDay(r.input.date)}
  ELSE {g \in TableOf(r.op) : g.userId = r.user}

\* the id the row has in the run in which no other user has done anything:
\* its place among the rows of its user (no row of the table is deleted)
SoloId(rows, row) ==
  Cardinality({r \in rows : r.userId = row.userId /\ r.id <= row.id})

ReadDone(p) ==
  req[p].pc = "done" /\ req[p].op \in ReadOps /\ req[p].resp.ok

\* the rows of the user in the four tables
RowsOf(userId) ==
  <<{e \in foodEntries : e.userId = userId},
    {s \in dailySummary : s.userId = userId},
    {g \in userGoals : g.userId = userId},
    {f \in customFoods : f.userId = userId}>>

\* C18 as stated: the four reads answer rows of the caller only, and every
\* row they answer is the row of the run without the other users' calls
ReadsAreAsWithoutOthers ==
  \A p \in SeqProcs :
    ReadDone(p) =>
      \A row \in RowsRead(req[p]) :
        /\ row.userId = req[p].user
        /\ row.id = SoloId(TableOf(req[p].op), row)

\* C18 amended: the four reads answer the rows of the caller that the
\* request asks for and no others, and no step of a call of one user
\* changes a row of another user
ReadsAnswerOwnRows ==
  /\ [](\A p \in SeqProcs :
          ReadDone(p) =>
            /\ \A row \in RowsRead(req[p]) : row.userId = req[p].user
            /\ RowsRead(req[p]) \subseteq RowsAsked(req[p])
            /\ RowsAsked(req[p]) # {} => RowsRead(req[p]) # {}
            /\ req[p].op \in {"getFoodsByDate", "getCustomFoods"}
                 => RowsRead(req[p]) = RowsAsked(req[p]))
  /\ [][\A p \in SeqProcs, a \in Users :
          req'[p].user # a => RowsOf(a)' = RowsOf(a)]_vars

OwnRowsReadBesideOthers ==
  \E p \in SeqProcs :
    /\ ReadDone(p)
    /\ RowsRead(req[p]) # {}
    /\ \E row \in TableOf(req[p].op) : row.userId # req[p].user

\* the row answers the body: every field the body supplied is equal, the
\* Date with what it has beyond the tick, and quantity and unit are 1 and
\* "serving" when the body left them out
RowAnswers(row, raw, date) ==
  /\ \A f \in DOMAIN raw \ {"ms"} : row[f] = raw[f]
  /\ row.date = date /\ MsOf(raw) = 0
  /\ "quantity" \notin DOMAIN raw => row.quantity = 1
  /\ "unit" \notin DOMAIN raw => row.unit = "serving"

\* C20: getFoodsByDate for the date of an entry, right after the addFood
\* that stored it and by the same user, answers a row with every supplied
\* field equal to the input and quantity 1, unit "serving" when omitted
AddedEntryIsListedAsSupplied ==
  [][\A p \in SeqProcs :
       (/\ req[p].pc = "done" /\ req[p].op = "addFood" /\ req[p].resp.ok
        /\ req'[p].pc = "done" /\ req'[p].op = "getFoodsByDate"
        /\ req'[p].user = req[p].user
        /\ req'[p].input.date = req[p].input.date)
       => \E i \in DOMAIN req'[p].resp.value,
             raw \in RawFoods \cup SubSecondFoods :
            /\ raw.foodName = req[p].input.foodName
            /\ req'[p].resp.value[i].id \in req[p].inserted
            /\ RowAnswers(req'[p].resp.value[i], raw, req[p].input.date)]_vars

CustomFoodOps == {"addCustomFood", "getCustomFoods"}

\* C21: addCustomFood and getCustomFoods leave every food entry and every
\* daily summary row as it was
CustomFoodsLeaveEntriesAlone ==
  [][\A p \in SeqProcs :
       (Ready(p) /\ req'[p].op \in CustomFoodOps)
       => (foodEntries' = foodEntries /\ dailySummary' = dailySummary)]_vars

CustomFoodStoredBesideEntries ==
  /\ \E p \in SeqProcs :
       /\ req[p].pc = "done" /\ req[p].op = "addCustomFood" /\ req[p].resp.ok
       /\ \E f \in customFoods : f.userId = req[p].user
       /\ \E e \in foodEntries : e.userId = req[p].user
       /\ \E r \in dailySummary : r.userId = req[p].user

\* the interleaved adds and the add after them have all finished
Settled == Quiet(Procs) /\ nextEntryId = MaxEntries + 2

\* the step is a getDailySummary in the slot p whose answer is new to it
SummaryRead(p) ==
  /\ Ready(p)
  /\ req'[p].pc = "done"
  /\ req'[p].op = "getDailySummary"
  /\ IF req[p].op = "getDailySummary"
     THEN req'[p].resp.value # req[p].resp.value
     ELSE TRUE

\* C22: once the interleaved adds of a day have finished and one more add
\* of that day has run to completion alone, getDailySummary answers the
\* sums over the current entries of the day
StaleSummaryIsTransient ==
  [][\A p \in Procs :
       (Settled /\ SummaryRead(p))
       => TotalsAre(req'[p].resp.value,
                    EntriesOfDay(req'[p].user, DayOf(req'[p].input.date)))]_vars

\* after the add that ran alone the day has two summary rows: the one
\* getDailySummary answers holds the sums, the other is stale
SettledOverTwoRows ==
  /\ Settled
  /\ \E p \in Procs :
       /\ req[p].pc = "done"
       /\ req[p].op = "getDailySummary"
       /\ req[p].resp.ok
       /\ LET entries == EntriesOfDay(req[p].user, DayOf(req[p].input.date))
          IN /\ req[p].resp.value \in dailySummary
             /\ TotalsAre(req[p].resp.value, entries)
             /\ \E row \in dailySummary :
                  /\ row.id # req[p].resp.value.id
                  /\ row.userId = req[p].user
                  /\ row.date = req[p].resp.value.date
                  /\ ~TotalsAre(row, entries)

\* C23: an updateGoals call that found no row of its user, whatever another
\* call of the user did meanwhile, succeeds and leaves exactly one row of
\* the user, which holds the fields the call sent
UpdateGoalsUpsertsUnderRace ==
  [][\A p \in Procs :
       (/\ req[p].pc = "goalsWrite"
        /\ req[p].existing = {}
        /\ req'[p].pc = "done")
       => /\ req'[p].resp.ok
          /\ \E g \in userGoals' :
               /\ g.userId = req[p].user
               /\ \A h \in userGoals' : h.userId = g.userId => h = g
               /\ \A f \in DOMAIN req[p].input : g[f] = req[p].input[f]]_vars

\* the first tick of a calendar day
Midnight(day) == day * TicksPerDay

\* the entries in the answer of a completed getFoodsByDate
Listed(r) == {r.resp.value[i] : i \in DOMAIN r.resp.value}

\* C24: getFoodsByDate for d answers exactly the caller's entries of d's
\* calendar day, from its midnight to the last tick before the next; the
\* answer is the same for every d of that day, none of its entries is
\* listed for a d of another day, and every summary row is keyed by the
\* midnight of its day, which is the key getDailySummary looks up
DayWindowIsCalendarDay ==
  /\ \A p \in SeqProcs :
       (req[p].pc = "done" /\ req[p].op = "getFoodsByDate" /\ req[p].resp.ok)
       => LET day == DayOf(req[p].input.date)
          IN /\ Listed(req[p]) =
                  {e \in foodEntries :
                     /\ e.userId = req[p].user
                     /\ e.date >= Midnight(day)
                     /\ e.date < Midnight(day + 1)}
             /\ \A d \in Times :
                  IF DayOf(d) = day
                  THEN getFoodEntriesByDate(req[p].user, d) = req[p].resp.value
                  ELSE \A i \in DOMAIN getFoodEntriesByDate(req[p].user, d) :
                         getFoodEntriesByDate(req[p].user, d)[i]
                           \notin Listed(req[p])
  /\ \A r \in dailySummary : r.date = Midnight(DayOf(r.date))
  /\ \A p \in SeqProcs :
       (req[p].pc = "done" /\ req[p].op = "getDailySummary" /\ req[p].resp.ok)
       => IF "id" \in DOMAIN req[p].resp.value
          THEN req[p].resp.value.date = Midnight(DayOf(req[p].input.date))
          ELSE \A r \in dailySummary :
                 r.userId = req[p].user
                   => DayOf(r.date) # DayOf(req[p].input.date)

EntriesOfTwoDaysListed ==
  \E p \in SeqProcs :
    /\ req[p].pc = "done" /\ req[p].op = "getFoodsByDate" /\ req[p].resp.ok
    /\ req[p].input.date # startOfDay(req[p].input.date)
    /\ Listed(req[p]) # {}
    /\ \E e \in foodEntries :
         e.userId = req[p].user /\ DayOf(e.date) # DayOf(req[p].input.date)

\* getUserMedia answers a stream to a startCamera of the modal that is open
AccessGranted ==
  /\ barcodeModal.startCamera > 0
  /\ barcodeModal'.startCamera = barcodeModal.startCamera - 1
  /\ mediaDevices'.next = mediaDevices.next + 1

\* C25: when access is granted after 'Open Camera to Scan', the camera is
\* active: the stream is attached to the preview, isCameraActive is true
\* and the periodic detection runs, and the manual entry stays as it is
CameraOpensWhenGranted ==
  [][AccessGranted
       => /\ barcodeModal'.srcObject = Some(mediaDevices.next)
          /\ barcodeModal'.isCameraActive
          /\ barcodeModal'.detectionIntervalRef
          /\ barcodeModal'.isAnalyzing = barcodeModal.isAnalyzing
          /\ barcodeModal'.barcode = barcodeModal.barcode]_vars

\* a step in which updateFood has answered success
FoodUpdated(p) ==
  /\ Ready(p) \/ req[p].pc = "sent"
  /\ req'[p].pc = "done"
  /\ req'[p].op = "updateFood"
  /\ req'[p].resp.ok

\* C26: updateFood changes only the fields its data supplies: every entry
\* keeps its id, its userId and the stored value of every field that is not
\* in the data, the quantity and the unit among them
UpdateFoodKeepsUnsuppliedFields ==
  [][\A p \in Procs :
       FoodUpdated(p)
       => \A e \in foodEntries :
            \E n \in foodEntries' :
              /\ n.id = e.id
              /\ n.userId = e.userId
              /\ \A f \in DOMAIN e :
                   f \notin DOMAIN req'[p].input.data => n[f] = e[f]]_vars

\* the entries the page lists
ListedEntries(page) ==
  {foodEntriesOf(page)[i] : i \in DOMAIN foodEntriesOf(page)}

\* no query of the page is to be fetched, no answer is under way, and
\* the page lists the entries that are stored
DashboardSettled ==
  /\ dashboard.fetching = {}
  /\ \A p \in Procs : req[p].pc = "idle"
  /\ ListedEntries(dashboard) = foodEntries

\* C27: once a successful add, edit or delete and the refetch it triggers
\* have completed, the totals of the summary cards are the sums over the
\* entries the page lists for the selected day
CardsEqualListedEntries ==
  DashboardSettled
  => /\ totals(dashboard).calories = SumOf(ListedEntries(dashboard), "calories")
     /\ totals(dashboard).protein = SumOf(ListedEntries(dashboard), "protein")
     /\ totals(dashboard).carbs = SumOf(ListedEntries(dashboard), "carbs")
     /\ totals(dashboard).fats = SumOf(ListedEntries(dashboard), "fats")

Macros == {"calories", "protein", "carbs", "fats"}

\* the field of the goals that a card of the page shows
GoalField(macro) ==
  IF macro = "calories" THEN "dailyCalories"
  ELSE IF macro = "protein" THEN "dailyProtein"
  ELSE IF macro = "carbs" THEN "dailyCarbs" ELSE "dailyFats"

\* C28: the 'Goal' of every card, which its progress and its 'Remaining'
\* are computed from, is the value getGoals answered for the user, a stored
\* 0 included, and no 'Remaining' is negative
CardsUseStoredGoals ==
  dashboard.userGoals # None
  => \A macro \in Macros :
       /\ dailyGoals(dashboard)[macro] = dashboard.userGoals[1][GoalField(macro)]
       /\ Remaining(dashboard, macro) >= 0

\* the notification 'Goals applied successfully!' is on show
AppliedToastShown(modal) ==
  /\ modal.toast.kind = "success"
  /\ modal.toast.message = "Goals applied successfully!"

\* C29: 'Goals applied successfully!' is on show only when the updateGoals
\* mutation that carries the calculated values has succeeded; when the call
\* was rejected by the range validation it is not on show, and the stored
\* goals are those of before the call
AppliedToastMeansSuccess ==
  /\ [](AppliedToastShown(goalsModal)
        => \E p \in Procs :
             /\ req[p].pc = "done"
             /\ req[p].op = "updateGoals"
             /\ req[p].resp.ok)
  /\ [][\A p \in Procs :
         (/\ req[p].pc # "done"
          /\ req'[p].pc = "done"
          /\ req'[p].op = "updateGoals"
          /\ ~req'[p].resp.ok)
         => userGoals' = userGoals]_vars

\* the macro fields as onSuccess fills them from the answer r
FilledFrom(form, r) ==
  /\ form.calories = Some(MathRound(r.resp.value.calories))
  /\ form.protein = Some(RoundToTenth(r.resp.value.protein))
  /\ form.carbs = Some(RoundToTenth(r.resp.value.carbs))
  /\ form.fats = Some(RoundToTenth(r.resp.value.fats))

\* a calculateMacros request is sent only by the timer of the last change,
\* for a name of more than 2 characters, with the values typed last
EstimateSentAfterDebounce ==
  [][\A p \in Procs :
       (p \notin addFoodModal.pending /\ p \in addFoodModal'.pending)
       => /\ addFoodModal.timer
          /\ NameLongEnough(addFoodModal)
          /\ req'[p].input.foodName = addFoodModal.foodName[1]
          /\ req'[p].input.quantity = addFoodModal.quantity[1]
          /\ req'[p].input.unit = addFoodModal.unit]_vars

\* once every request has answered, the macro fields hold the estimate that
\* answered the request of the values typed last
FieldsHoldLatestEstimate ==
  (/\ addFoodModal.pending = {}
   /\ ~addFoodModal.timer
   /\ addFoodModal.latest # None)
  => LET r == req[addFoodModal.latest[1]]
     IN (r.resp.ok /\ r.resp.value.calories # 0) => FilledFrom(addFoodModal, r)

\* the Add Food button is disabled while a request is outstanding
SubmitDisabledWhileOutstanding ==
  addFoodModal.pending # {} => addFoodModal.isCalculating

\* C30: calculateMacros is sent only 500 ms after the last change of name,
\* quantity or unit and only for a trimmed name of more than 2 characters;
\* once every outstanding request has answered, in whatever order, the
\* macro fields hold the estimate for the values typed last; and the submit
\* button is disabled while any request is outstanding
DebouncedEstimateIsLatest ==
  /\ EstimateSentAfterDebounce
  /\ []FieldsHoldLatestEstimate
  /\ []SubmitDisabledWhileOutstanding

====
